---- MODULE Spec2Model ----
(***************************************************************************)
(* Model of the formula reference and dependency-graph engine of           *)
(* validador_csv (validator_tool).                                         *)
(*                                                                         *)
(* Four independent parts of the program are modelled, each with its own   *)
(* specification over its own variables (the other variables stay at       *)
(* their initial values):                                                  *)
(*   SpecGraph     cross_sheet_analyzer.py: analyze_workbook_native,        *)
(*                 generate_dependency_graph, _calculate_processing_order,  *)
(*                 suggest_optimizations / _detect_circular_dependencies    *)
(*   SpecImpact    impact_analyzer.py analisar_cadeia_impacto and the       *)
(*                 impacto_cascata map of validate.py main                  *)
(*   SpecDiscover  formula_auto_discovery.py discover_formulas /            *)
(*                 discover_all_sheets                                      *)
(*   SpecTranslate formula_extractor.py _translate_formula /                *)
(*                 _translate_formula_multi_sheet                           *)
(***************************************************************************)
EXTENDS Integers, Sequences, FiniteSets, TLC

\* ---------------------------------------------------------------- bounds
\* number of sheets of the analysed workbook
NumSheets == 3
\* number of formula cells (each holding one sheet-qualified reference)
MaxFormulas == 4
\* number of entries of a formula's translation map ('mapeamento')
MaxDeps == 2
\* number of columns of a worksheet (ws.max_column)
NumCols == 2
\* number of characters of a formula after its leading '='
MaxBody == 5
\* number of pieces of a formula cell of the discovery after its leading '='
MaxPieces == 4
\* number of entries of the translation map (mapeamento) of a formula
MaxCauses == 4
\* number of rows the validator compared
NumRows == 1
\* length of the list of affected columns, and of affected formulas, of one
\* origin column
MaxAffected == 3
\* number of pieces of a formula of the sheet whose references are extracted
MaxRefPieces == 4
\* number of sheets the workbook part of a package declares
MaxDeclared == 2
\* number of pieces of a formula that calls functions
MaxCallPieces == 3
\* number of letters of a column
MaxLetters == 3

VARIABLES
  \* ---- cross_sheet_analyzer.py
  gpc,              \* position of the analysis run
  wb_formulas,      \* the workbook: formula cells in the order they are read
  fi,               \* index of the next formula cell to analyse
  cross_references, \* workbook_data['cross_references']
  dependencies,     \* workbook_data['dependencies']
  dep_order,        \* insertion order of the keys of dependencies
  nodes, edges,     \* graph['nodes'], graph['edges']
  levels,           \* graph['levels']
  processed, current_level, all_sheets,
  warned,           \* the set logged by the circular-dependency warning
  passes,           \* iterations of the leveling while loop so far
  visited, rec_stack, path,
  stack,            \* the call stack of has_cycle
  top_idx,          \* position of the for loop over dependencies
  expanded,         \* how many times has_cycle was entered per node
  circular,         \* the list _detect_circular_dependencies returned
  \* ---- impact_analyzer.py and validate.py
  ipc,              \* position of the impact run
  formulas,         \* the formulas dict: key -> values of its 'mapeamento'
  chain_idx,        \* position of the loops of analisar_cadeia_impacto
  cadeia_impacto,   \* col_ref -> set of formula keys
  cadeia_order,     \* insertion order of the keys of cadeia_impacto
  cascata_idx,      \* position of the loop over cadeia_impacto in main
  impacto_cascata,  \* extra_info['impacto_cascata']
  \* ---- formula_auto_discovery.py
  dpc,              \* position of discover_all_sheets
  worksheets,       \* the workbook: per sheet, its columns (rows 1 and 2)
  sheet_idx,        \* position of the loop over wb.sheetnames
  col_idx,          \* position of the loop over the columns of the sheet
  formulas_found,   \* the dict discover_formulas is filling
  all_formulas,     \* the dict discover_all_sheets is filling
  writes,           \* history: the formula cells stored so far, in order
  log,              \* the records the discovery has logged
  \* ---- formula_extractor.py
  tpc,              \* which translator has run
  formula,          \* the formula text, a sequence of characters
  translation_map,  \* header_traducao: reference key -> semantic name
  translated,       \* the translated text
  \* ---- formula_auto_discovery.py: one formula cell
  apc,              \* position of the analysis of the cell
  formula_text,     \* the formula of the cell, a sequence of characters
  home_headers,     \* row 1 of the cell's worksheet: column letters -> header
  formula_info,     \* what _analyze_formula returned
  formula_pattern,  \* what _generalize_formula returned
  \* ---- impact_analyzer.py: analyze_formula_dependencies, and main
  rpc,                   \* position of the run
  tracked_formulas,      \* the formulas dict: key -> mapeamento, depends_on
  validation_results,    \* the list the validator returned
  dependencias_inversas, \* referenced column -> list of formula keys
  formula_dependencies,  \* result column -> list of referenced columns
  impacto_por_resultado, \* resultado_key -> message
  reverse_dependencies,  \* dependencias['reverse_dependencies']
  \* ---- report_generator.py: _create_cascade_impact_sheet
  spc,              \* position of the loop over cascade_data
  cascade_data,     \* origin column -> the affected columns and formulas
  cascade_idx,      \* position in cascade_data.items()
  cascade_rows,     \* the rows written to the sheet, row 2 first
  \* ---- cross_sheet_analyzer.py: the references of one sheet's formulas
  xpc,              \* position of the run
  source_formulas,  \* sheet_data['formulas'] of the sheet, as texts
  formula_idx,      \* position of the loop over the formulas
  found_refs,       \* workbook_data['cross_references'][sheet_name]
  sheet_edges,      \* graph['edges']
  \* ---- cross_sheet_analyzer.py: reading the package
  wpc,              \* position of analyze_workbook_native
  package,          \* the file: is it a zip, its workbook part, its sheet parts
  sheet_info,       \* what _extract_sheet_info returned: the sheet names
  sheet_pos,        \* position of the loop over sheet_info.items()
  sheets_data,      \* workbook_data['sheets']
  errors_logged,    \* the calls of logger.error
  \* ---- the column letters: cross_sheet_analyzer.py, data_loader.py
  cpc,              \* position of the run
  col_str,          \* the letters of a column
  cell_col,         \* the column _parse_cell_ref returned
  zero_index,       \* what _convert_column_letters_to_indices returned
  col_letter        \* what get_column_letter returned

gvars == <<gpc, wb_formulas, fi, cross_references, dependencies, dep_order,
           nodes, edges, levels, processed, current_level, all_sheets,
           warned, passes, visited, rec_stack, path, stack, top_idx,
           expanded, circular>>

ivars == <<ipc, formulas, chain_idx, cadeia_impacto, cadeia_order, cascata_idx,
           impacto_cascata>>

dvars == <<dpc, worksheets, sheet_idx, col_idx, formulas_found, all_formulas,
           writes, log>>

tvars == <<tpc, formula, translation_map, translated>>

avars == <<apc, formula_text, home_headers, formula_info, formula_pattern>>

rvars == <<rpc, tracked_formulas, validation_results, dependencias_inversas,
           formula_dependencies, impacto_por_resultado, reverse_dependencies>>

svars == <<spc, cascade_data, cascade_idx, cascade_rows>>

xvars == <<xpc, source_formulas, formula_idx, found_refs, sheet_edges>>

wvars == <<wpc, package, sheet_info, sheet_pos, sheets_data, errors_logged>>

cvars == <<cpc, col_str, cell_col, zero_index, col_letter>>

vars == <<gvars, ivars, dvars, tvars, avars, rvars, svars, xvars, wvars, cvars>>

\* what the code of one part leaves alone: the state of the other parts
notGraph == <<ivars, dvars, tvars, avars, rvars, svars, xvars, wvars,
  cvars>>
notImpact == <<gvars, dvars, tvars, avars, rvars, svars, xvars, wvars,
  cvars>>
notDiscover == <<gvars, ivars, tvars, avars, rvars, svars, xvars, wvars,
  cvars>>
notTranslate == <<gvars, ivars, dvars, avars, rvars, svars, xvars, wvars,
  cvars>>
notAnalyze == <<gvars, ivars, dvars, tvars, rvars, svars, xvars, wvars,
  cvars>>
notSeverity == <<gvars, ivars, dvars, tvars, avars, rvars, xvars, wvars,
  cvars>>
notRefs == <<gvars, ivars, dvars, tvars, avars, rvars, svars, wvars,
  cvars>>
notRead == <<gvars, ivars, dvars, tvars, avars, rvars, svars, xvars,
  cvars>>
notResults == <<gvars, ivars, dvars, tvars, avars, svars, xvars, wvars,
  cvars>>
notColumns == <<gvars, ivars, dvars, tvars, avars, rvars, svars, xvars, wvars>>

\* ------------------------------------------------------------ helpers
Range(s) == {s[i] : i \in DOMAIN s}

EmptyMap == <<>>

\* dict.get(key, default)
Get(d, k, default) == IF k \in DOMAIN d THEN d[k] ELSE default

SeqsUpTo(S, n) == UNION {[1..k -> S] : k \in 0..n}

\* The parts of the program that a specification does not run.
GraphIdle ==
  /\ gpc = "idle" /\ wb_formulas = <<>> /\ fi = 1
  /\ cross_references = EmptyMap /\ dependencies = EmptyMap /\ dep_order = <<>>
  /\ nodes = {} /\ edges = {} /\ levels = EmptyMap /\ processed = {}
  /\ current_level = 0 /\ all_sheets = {} /\ warned = {} /\ passes = 0
  /\ visited = {} /\ rec_stack = {} /\ path = <<>> /\ stack = <<>>
  /\ top_idx = 1 /\ expanded = EmptyMap /\ circular = <<>>

ImpactIdle ==
  /\ ipc = "idle" /\ formulas = EmptyMap /\ chain_idx = 1
  /\ cadeia_impacto = EmptyMap /\ cadeia_order = <<>> /\ cascata_idx = 1
  /\ impacto_cascata = EmptyMap

DiscoverIdle ==
  /\ dpc = "idle" /\ worksheets = <<>> /\ sheet_idx = 1 /\ col_idx = 1
  /\ formulas_found = EmptyMap /\ all_formulas = EmptyMap
  /\ writes = <<>> /\ log = <<>>

TranslateIdle ==
  /\ tpc = "idle" /\ formula = <<>> /\ translation_map = EmptyMap
  /\ translated = <<>>

AnalyzeIdle ==
  /\ apc = "idle" /\ formula_text = <<>> /\ home_headers = EmptyMap
  /\ formula_info = EmptyMap /\ formula_pattern = <<>>

ResultsIdle ==
  /\ rpc = "idle" /\ tracked_formulas = EmptyMap /\ validation_results = <<>>
  /\ dependencias_inversas = EmptyMap /\ formula_dependencies = EmptyMap
  /\ impacto_por_resultado = EmptyMap /\ reverse_dependencies = EmptyMap

SeverityIdle ==
  /\ spc = "idle" /\ cascade_data = EmptyMap /\ cascade_idx = 1
  /\ cascade_rows = <<>>

RefsIdle ==
  /\ xpc = "idle" /\ source_formulas = <<>> /\ formula_idx = 1
  /\ found_refs = <<>> /\ sheet_edges = {}

ReadIdle ==
  /\ wpc = "idle" /\ package = EmptyMap /\ sheet_info = <<>> /\ sheet_pos = 1
  /\ sheets_data = EmptyMap /\ errors_logged = 0

ColumnsIdle ==
  /\ cpc = "idle" /\ col_str = <<>> /\ cell_col = 0 /\ zero_index = 0
  /\ col_letter = <<>>

\* ============================================================ SpecGraph
SheetNames == <<"A", "B", "C", "D", "E", "F">>

\* sheet_info: the sheets of the workbook in the order of xl/workbook.xml
sheets == SubSeq(SheetNames, 1, NumSheets)

SheetSet == Range(sheets)

SheetIndex(s) == CHOOSE i \in DOMAIN sheets : sheets[i] = s

\* A formula cell of sheet src whose text holds the reference tgt!A1.
FormulaCells == [src : SheetSet, tgt : SheetSet]

\* Sheets are read one after the other, the cells of a sheet in any order.
Workbooks ==
  {w \in SeqsUpTo(FormulaCells, MaxFormulas) :
     \A i \in 1..(Len(w) - 1) : SheetIndex(w[i].src) <= SheetIndex(w[i + 1].src)}

\* the records without the test of line 162, target_sheet != current_sheet
ExtractCrossReferencesUnfiltered(cell_formula, current_sheet) ==
  <<[source_sheet |-> current_sheet, target_sheet |-> cell_formula.tgt]>>

\* _extract_cross_references: the records of the references to other sheets
ExtractCrossReferences(cell_formula, current_sheet) ==
  IF cell_formula.tgt # current_sheet
    THEN <<[source_sheet |-> current_sheet, target_sheet |-> cell_formula.tgt]>>
    ELSE <<>>

GraphInit ==
  /\ gpc = "analyze"
  /\ wb_formulas \in Workbooks
  /\ fi = 1
  /\ cross_references = EmptyMap
  /\ dependencies = EmptyMap
  /\ dep_order = <<>>
  /\ nodes = {}
  /\ edges = {}
  /\ levels = EmptyMap
  /\ processed = {}
  /\ current_level = 0
  /\ all_sheets = {}
  /\ warned = {}
  /\ passes = 0
  /\ visited = {}
  /\ rec_stack = {}
  /\ path = <<>>
  /\ stack = <<>>
  /\ top_idx = 1
  /\ expanded = [s \in SheetSet |-> 0]
  /\ circular = <<>>
  /\ ImpactIdle /\ DiscoverIdle /\ TranslateIdle /\ AnalyzeIdle /\ ResultsIdle
  /\ SeverityIdle /\ RefsIdle /\ ReadIdle /\ ColumnsIdle

analysisVars == <<wb_formulas, fi, cross_references, dependencies, dep_order>>
levelVars == <<nodes, edges, levels, processed, current_level, all_sheets,
               warned, passes>>
dfsVars == <<visited, rec_stack, path, stack, top_idx, expanded, circular>>

\* analyze_workbook_native, lines 62-68: one formula cell
AnalyzeFormula ==
  /\ gpc = "analyze"
  /\ UNCHANGED notGraph
  /\ fi <= Len(wb_formulas)
  /\ LET cell_formula == wb_formulas[fi]
         sheet_name == cell_formula.src
         refs == ExtractCrossReferences(cell_formula, sheet_name)
     IN IF refs # <<>>
          THEN LET target == refs[1].target_sheet
               IN /\ cross_references' =
                       [s \in DOMAIN cross_references \cup {sheet_name} |->
                          Get(cross_references, s, <<>>) \o
                            (IF s = sheet_name THEN refs ELSE <<>>)]
                  /\ dependencies' =
                       [t \in DOMAIN dependencies \cup {target} |->
                          Get(dependencies, t, {}) \cup
                            (IF t = target THEN {sheet_name} ELSE {})]
                  /\ dep_order' = IF target \in DOMAIN dependencies
                                    THEN dep_order
                                    ELSE Append(dep_order, target)
          ELSE UNCHANGED <<cross_references, dependencies, dep_order>>
  /\ fi' = fi + 1
  /\ UNCHANGED <<gpc, wb_formulas>>
  /\ UNCHANGED levelVars
  /\ UNCHANGED dfsVars

\* analyze_workbook_native, line 74: return workbook_data
AnalyzeReturn ==
  /\ gpc = "analyze"
  /\ UNCHANGED notGraph
  /\ fi > Len(wb_formulas)
  /\ gpc' = "graph"
  /\ UNCHANGED analysisVars
  /\ UNCHANGED levelVars
  /\ UNCHANGED dfsVars

\* generate_dependency_graph, lines 204-215: one edge per (source, target)
\* pair, weighted by the number of reference records to that target
GraphEdges(xrefs) ==
  LET targets(s) == {xrefs[s][i].target_sheet : i \in DOMAIN xrefs[s]}
  IN UNION {{[source |-> s, target |-> t,
              count |-> Cardinality({i \in DOMAIN xrefs[s] :
                                       xrefs[s][i].target_sheet = t})] :
               t \in targets(s)} : s \in DOMAIN xrefs}

\* _calculate_processing_order, lines 231-234
AllSheets(deps) == DOMAIN deps \cup UNION {deps[k] : k \in DOMAIN deps}

\* _calculate_processing_order, line 237
LevelZero(deps) == AllSheets(deps) \ DOMAIN deps

\* the test of line 250 as an equality: sheet_deps == processed
ReadySheetsExact(deps, all, done) ==
  {sheet \in all \ done : Get(deps, sheet, {}) = done}

\* the loop of line 247 over all_sheets, the processed ones included
ReadySheetsAmongAll(deps, all, done) ==
  {sheet \in all : Get(deps, sheet, {}) \subseteq done}

\* _calculate_processing_order, lines 247-251
ReadySheets(deps, all, done) ==
  {sheet \in all \ done : Get(deps, sheet, {}) \subseteq done}

\* generate_dependency_graph up to the while loop of
\* _calculate_processing_order (lines 190-241)
GenerateGraph ==
  /\ gpc = "graph"
  /\ UNCHANGED notGraph
  /\ nodes' = SheetSet
  /\ edges' = GraphEdges(cross_references)
  /\ all_sheets' = AllSheets(dependencies)
  /\ LET level_0 == LevelZero(dependencies)
     IN IF level_0 # {}
          THEN /\ levels' = (0 :> level_0)
               /\ processed' = level_0
               /\ current_level' = 1
          ELSE UNCHANGED <<levels, processed, current_level>>
  /\ gpc' = "level"
  /\ UNCHANGED analysisVars
  /\ UNCHANGED <<warned, passes>>
  /\ UNCHANGED dfsVars

\* One iteration of the while loop that neither assigns nor stops.
LevelPassNoBreak ==
  /\ gpc = "level"
  /\ UNCHANGED notGraph
  /\ Cardinality(processed) < Cardinality(all_sheets)
  /\ LET current_level_sheets == ReadySheets(dependencies, all_sheets, processed)
     IN IF current_level_sheets # {}
          THEN /\ levels' = levels @@ (current_level :> current_level_sheets)
               /\ processed' = processed \cup current_level_sheets
               /\ current_level' = current_level + 1
               /\ UNCHANGED <<gpc, warned>>
          ELSE /\ warned' = all_sheets \ processed
               /\ UNCHANGED <<levels, processed, current_level, gpc>>
  /\ passes' = passes + 1
  /\ UNCHANGED analysisVars
  /\ UNCHANGED <<nodes, edges, all_sheets>>
  /\ UNCHANGED dfsVars

\* One iteration of the while loop whose else branch drops the remainder.
LevelPassDropRemainder ==
  /\ gpc = "level"
  /\ UNCHANGED notGraph
  /\ Cardinality(processed) < Cardinality(all_sheets)
  /\ LET current_level_sheets == ReadySheets(dependencies, all_sheets, processed)
     IN IF current_level_sheets # {}
          THEN /\ levels' = levels @@ (current_level :> current_level_sheets)
               /\ processed' = processed \cup current_level_sheets
               /\ current_level' = current_level + 1
               /\ UNCHANGED <<gpc, warned>>
          ELSE /\ warned' = all_sheets \ processed
               /\ gpc' = "detect"
               /\ UNCHANGED <<levels, processed, current_level>>
  /\ passes' = passes + 1
  /\ UNCHANGED analysisVars
  /\ UNCHANGED <<nodes, edges, all_sheets>>
  /\ UNCHANGED dfsVars

\* _calculate_processing_order, lines 244-262: one iteration of the while
\* loop; the else branch logs the warning, places the remainder and breaks
LevelPass ==
  /\ gpc = "level"
  /\ UNCHANGED notGraph
  /\ Cardinality(processed) < Cardinality(all_sheets)
  /\ LET current_level_sheets == ReadySheets(dependencies, all_sheets, processed)
     IN IF current_level_sheets # {}
          THEN /\ levels' = levels @@ (current_level :> current_level_sheets)
               /\ processed' = processed \cup current_level_sheets
               /\ current_level' = current_level + 1
               /\ UNCHANGED <<gpc, warned>>
          ELSE LET remaining == all_sheets \ processed
               IN /\ warned' = remaining
                  /\ levels' = levels @@ (current_level :> remaining)
                  /\ gpc' = "detect"
                  /\ UNCHANGED <<processed, current_level>>
  /\ passes' = passes + 1
  /\ UNCHANGED analysisVars
  /\ UNCHANGED <<nodes, edges, all_sheets>>
  /\ UNCHANGED dfsVars

\* _calculate_processing_order, lines 244 and 264: the loop condition fails
\* and the levels are returned
LevelReturn ==
  /\ gpc = "level"
  /\ UNCHANGED notGraph
  /\ ~(Cardinality(processed) < Cardinality(all_sheets))
  /\ gpc' = "detect"
  /\ UNCHANGED analysisVars
  /\ UNCHANGED levelVars
  /\ UNCHANGED dfsVars

\* generate_dependency_graph has returned its graph
LevelerReturned == gpc \in {"detect", "done", "raised"}

\* has_cycle, lines 339-341: entering the call for node
EnterHasCycle(node, frames) ==
  /\ visited' = visited \cup {node}
  /\ rec_stack' = rec_stack \cup {node}
  /\ path' = Append(path, node)
  /\ stack' = Append(frames, [node |-> node,
                              todo |-> Get(dependencies, node, {})])
  /\ expanded' = [expanded EXCEPT ![node] = @ + 1]

\* list.index(x): position of the first occurrence
IndexOf(seq, x) == CHOOSE i \in DOMAIN seq :
                     seq[i] = x /\ \A j \in 1..(i - 1) : seq[j] # x

\* _detect_circular_dependencies, lines 359-362: the for loop over the keys
\* of dependencies calls has_cycle on a key not yet visited
DetectCall ==
  /\ gpc = "detect"
  /\ UNCHANGED notGraph
  /\ stack = <<>>
  /\ top_idx <= Len(dep_order)
  /\ dep_order[top_idx] \notin visited
  /\ LET node == dep_order[top_idx]
     IN /\ visited' = visited \cup {node}
        /\ rec_stack' = rec_stack \cup {node}
        /\ path' = <<node>>
        /\ stack' = <<[node |-> node, todo |-> Get(dependencies, node, {})]>>
        /\ expanded' = [expanded EXCEPT ![node] = @ + 1]
  /\ UNCHANGED <<gpc, top_idx, circular>>
  /\ UNCHANGED analysisVars
  /\ UNCHANGED levelVars

\* _detect_circular_dependencies, lines 359-360: a key already visited
DetectSkip ==
  /\ gpc = "detect"
  /\ UNCHANGED notGraph
  /\ stack = <<>>
  /\ top_idx <= Len(dep_order)
  /\ dep_order[top_idx] \in visited
  /\ top_idx' = top_idx + 1
  /\ UNCHANGED <<gpc, visited, rec_stack, path, stack, expanded, circular>>
  /\ UNCHANGED analysisVars
  /\ UNCHANGED levelVars

\* _detect_circular_dependencies, line 366: return []
DetectReturnEmpty ==
  /\ gpc = "detect"
  /\ UNCHANGED notGraph
  /\ stack = <<>>
  /\ top_idx > Len(dep_order)
  /\ circular' = <<>>
  /\ gpc' = "done"
  /\ UNCHANGED <<visited, rec_stack, path, stack, top_idx, expanded>>
  /\ UNCHANGED analysisVars
  /\ UNCHANGED levelVars

\* has_cycle, lines 343-346: the next neighbor (the set is iterated in an
\* arbitrary order) is not visited yet: the recursive call
HasCycleRecurse ==
  /\ gpc = "detect"
  /\ UNCHANGED notGraph
  /\ stack # <<>>
  /\ LET n == Len(stack)
         fr == stack[n]
     IN \E neighbor \in fr.todo :
          /\ neighbor \notin visited
          /\ EnterHasCycle(neighbor,
               [stack EXCEPT ![n].todo = fr.todo \ {neighbor}])
  /\ UNCHANGED <<gpc, top_idx, circular>>
  /\ UNCHANGED analysisVars
  /\ UNCHANGED levelVars

\* has_cycle, lines 343-347: the next neighbor is visited and not on the
\* recursion stack: nothing to do
HasCycleSkip ==
  /\ gpc = "detect"
  /\ UNCHANGED notGraph
  /\ stack # <<>>
  /\ LET n == Len(stack)
         fr == stack[n]
     IN \E neighbor \in fr.todo :
          /\ neighbor \in visited
          /\ neighbor \notin rec_stack
          /\ stack' = [stack EXCEPT ![n].todo = fr.todo \ {neighbor}]
  /\ UNCHANGED <<gpc, visited, rec_stack, path, top_idx, expanded, circular>>
  /\ UNCHANGED analysisVars
  /\ UNCHANGED levelVars

\* has_cycle, lines 347-350, and what its callers do with the value: the
\* neighbor is on the recursion stack.  path.index raises ValueError when
\* the neighbor is not in path.  Otherwise this call returns the list
\* path[cycle_start:]; a calling has_cycle turns any true value into True
\* (lines 345-346), and _detect_circular_dependencies returns the value only
\* if it is a list (lines 363-364), else goes on with the next key.
\* visited, rec_stack and path keep their values.
HasCycleFound ==
  /\ gpc = "detect"
  /\ UNCHANGED notGraph
  /\ stack # <<>>
  /\ LET n == Len(stack)
         fr == stack[n]
     IN \E neighbor \in fr.todo :
          /\ neighbor \in visited
          /\ neighbor \in rec_stack
          /\ IF neighbor \notin Range(path)
               THEN /\ gpc' = "raised"
                    /\ UNCHANGED <<stack, top_idx, circular>>
               ELSE IF n = 1
                 THEN /\ circular' = SubSeq(path, IndexOf(path, neighbor), Len(path))
                      /\ gpc' = "done"
                      /\ stack' = <<>>
                      /\ UNCHANGED top_idx
                 ELSE /\ stack' = <<>>
                      /\ top_idx' = top_idx + 1
                      /\ UNCHANGED <<gpc, circular>>
  /\ UNCHANGED <<visited, rec_stack, path, expanded>>
  /\ UNCHANGED analysisVars
  /\ UNCHANGED levelVars

\* has_cycle, lines 352-354: all neighbors done, return False; at the top
\* the for loop of _detect_circular_dependencies goes on
HasCycleReturnFalse ==
  /\ gpc = "detect"
  /\ UNCHANGED notGraph
  /\ stack # <<>>
  /\ stack[Len(stack)].todo = {}
  /\ path' = SubSeq(path, 1, Len(path) - 1)
  /\ rec_stack' = rec_stack \ {stack[Len(stack)].node}
  /\ stack' = SubSeq(stack, 1, Len(stack) - 1)
  /\ top_idx' = IF Len(stack) = 1 THEN top_idx + 1 ELSE top_idx
  /\ UNCHANGED <<gpc, visited, expanded, circular>>
  /\ UNCHANGED analysisVars
  /\ UNCHANGED levelVars

GraphNext ==
  \/ AnalyzeFormula
  \/ AnalyzeReturn
  \/ GenerateGraph
  \/ LevelPass
  \/ LevelReturn
  \/ DetectCall
  \/ DetectSkip
  \/ DetectReturnEmpty
  \/ HasCycleRecurse
  \/ HasCycleSkip
  \/ HasCycleFound
  \/ HasCycleReturnFalse

SpecGraph == GraphInit /\ [][GraphNext]_vars

\* ------------------------------------------------ properties of SpecGraph
\* The sheet graph of the workbook: source references target.
RefEdges == {<<wb_formulas[i].src, wb_formulas[i].tgt>> : i \in
               {j \in DOMAIN wb_formulas : wb_formulas[j].src # wb_formulas[j].tgt}}

RECURSIVE PathsUpTo(_, _)
PathsUpTo(E, k) ==
  IF k <= 1 THEN E
  ELSE LET P == PathsUpTo(E, k - 1)
       IN P \cup {<<a, c>> \in SheetSet \X SheetSet :
                    \E b \in SheetSet : <<a, b>> \in P /\ <<b, c>> \in E}

\* some sheet reaches itself along references (two or more sheets, as no
\* sheet references itself in RefEdges)
SheetGraphHasCycle ==
  \E s \in SheetSet : <<s, s>> \in PathsUpTo(RefEdges, NumSheets)

IsRingABC == RefEdges = {<<"A", "B">>, <<"B", "C">>, <<"C", "A">>}

DetectorEnded == gpc \in {"done", "raised"}

LevelsOf(s) == {k \in DOMAIN levels : s \in levels[k]}

\* C1: on a sheet graph with a directed cycle of two or more sheets the
\* cycle detector returns a non-empty sheet sequence, and on the ring
\* A->B->C->A that sequence holds exactly the three sheets.
C1_CycleReported ==
  (DetectorEnded /\ SheetGraphHasCycle) =>
     /\ gpc = "done"
     /\ circular # <<>>
     /\ IsRingABC => (Len(circular) = 3 /\ Range(circular) = {"A", "B", "C"})

\* C2: once generate_dependency_graph has returned, every node of the graph
\* (every sheet of the workbook) is in exactly one processing level.
C2_EverySheetInOneLevel ==
  LevelerReturned => \A s \in nodes : Cardinality(LevelsOf(s)) = 1

\* C4: in an acyclic sheet graph, level 0 is the set of the leveled sheets
\* that reference no other sheet, and every sheet is on a level strictly
\* above the level of every sheet it references.
C4_LevelsFollowReferences ==
  (LevelerReturned /\ ~SheetGraphHasCycle) =>
     /\ 0 \in DOMAIN levels =>
          levels[0] = {s \in all_sheets : \A t \in SheetSet : <<s, t>> \notin RefEdges}
     /\ \A e \in RefEdges :
          \A ks \in LevelsOf(e[1]) : \A kt \in LevelsOf(e[2]) : ks > kt

\* C5: _detect_circular_dependencies never raises, and has_cycle is entered
\* at most once per node.
C5_DetectorReturnsNormally ==
  /\ gpc # "raised"
  /\ \A s \in SheetSet : expanded[s] <= 1

\* C6: the leveling loop runs at most |all_sheets| times, and each of its
\* iterations either assigns a sheet that was unassigned or places all the
\* remaining sheets and stops.
C6_LevelingTerminates ==
  /\ [](passes <= Cardinality(all_sheets))
  /\ [][(gpc = "level" /\ passes' # passes) =>
          \/ (processed \subseteq processed' /\ processed' # processed
                /\ processed' \subseteq all_sheets)
          \/ (gpc' = "detect"
                /\ UNION {levels'[k] : k \in DOMAIN levels'} = all_sheets)]_vars

C6_Witness ==
  /\ gpc = "detect"
  /\ passes = 2
  /\ processed = all_sheets

\* C7: when no unassigned sheet can be assigned, the leveler returns at
\* once with all the unassigned sheets together on the next level, which is
\* the highest level of the result.
C7_RemainderOnLastLevel ==
  /\ [](LevelerReturned =>
          LET remaining == all_sheets \ processed
          IN remaining # {} =>
               /\ ReadySheets(dependencies, all_sheets, processed) = {}
               /\ DOMAIN levels = 0..current_level
               /\ levels[current_level] = remaining
               /\ \A k \in 0..(current_level - 1) : levels[k] \cap remaining = {})
  /\ [][(gpc = "level" /\ all_sheets \ processed # {}
           /\ ReadySheets(dependencies, all_sheets, processed) = {}) =>
          (gpc' = "detect" /\ warned' = all_sheets \ processed)]_vars

C7_Witness ==
  /\ LevelerReturned
  /\ warned # {}
  /\ current_level = 1
  /\ levels[1] = warned

\* the detector has not returned a sequence of sheets
DetectorReportsNothing == circular = <<>>

\* C25: a non-empty sequence returned by _detect_circular_dependencies is a
\* cycle of the sheet graph: each sheet of it references the next one, the
\* last references the first, and no sheet is in it twice.
C25_ReturnedCycleIsGenuine ==
  (gpc = "done" /\ circular # <<>>) =>
    /\ \A i \in 1..Len(circular) :
         <<circular[i], circular[(i % Len(circular)) + 1]>> \in RefEdges
    /\ \A i, j \in 1..Len(circular) : circular[i] = circular[j] => i = j

\* the sheets of the levels below level k
LeveledBelow(k) == UNION {levels[j] : j \in {i \in DOMAIN levels : i < k}}

\* C26: when no sheet reaches itself along references, the detector returns
\* the empty list without raising, the leveler never takes its
\* circular-dependency branch, and every sheet of every level has all its
\* dependencies on the levels below.
C26_AcyclicNeverCircular ==
  ~SheetGraphHasCycle =>
    /\ gpc # "raised"
    /\ circular = <<>>
    /\ warned = {}
    /\ \A k \in DOMAIN levels : \A s \in levels[k] :
         Get(dependencies, s, {}) \subseteq LeveledBelow(k)

C26_Witness ==
  /\ gpc = "done"
  /\ ~SheetGraphHasCycle
  /\ DOMAIN levels = 0..2
  /\ circular = <<>>

\* C27: the levels the leveler returns have the keys 0..k, no level is
\* empty, no sheet is on two levels, and the sheets of the levels are the
\* keys and the values of the dependency map.
C27_LevelsWellFormed ==
  LevelerReturned =>
    /\ \E k \in -1..NumSheets : DOMAIN levels = 0..k
    /\ \A k \in DOMAIN levels : levels[k] # {}
    /\ \A k1, k2 \in DOMAIN levels : levels[k1] \cap levels[k2] # {} => k1 = k2
    /\ UNION {levels[k] : k \in DOMAIN levels} = AllSheets(dependencies)

C27_Witness ==
  /\ LevelerReturned
  /\ SheetGraphHasCycle
  /\ DOMAIN levels = 0..1
  /\ levels[0] # {}
  /\ levels[1] = warned
  /\ Cardinality(warned) = 2

\* C28: no reference record has its own sheet as target, so no sheet is in
\* its own dependency set, no edge of the graph leaves and enters the same
\* sheet, and no sheet alone is returned as a cycle.
C28_NoSelfReference ==
  /\ \A s \in DOMAIN cross_references : \A i \in DOMAIN cross_references[s] :
       /\ cross_references[s][i].source_sheet = s
       /\ cross_references[s][i].target_sheet # s
  /\ \A t \in DOMAIN dependencies : t \notin dependencies[t]
  /\ \A e \in edges : e.source # e.target
  /\ Len(circular) # 1

\* a cell of sheet A that refers to sheet A has been analysed, with a cell
\* that refers to another sheet
C28_Witness ==
  /\ gpc = "done"
  /\ \E i \in DOMAIN wb_formulas : wb_formulas[i] = [src |-> "A", tgt |-> "A"]
  /\ edges # {}

\* =========================================================== SpecImpact
\* A name (a formula key or a column name) is the sequence of the pieces
\* between its dots: "P.F1" is <<"P", "F1">>, "X" is <<"X">>.
HasDot(name) == Len(name) > 1

\* name.split('.')[-1]
LastPiece(name) == name[Len(name)]

\* The keys a formulas dict may hold, in the order the extractor stores them.
FormulaKeyOrder == << <<"P", "F1">>, <<"P", "F2">>, <<"F3">> >>

\* The column names a translation map may name.
ColumnNames == {<<"X">>, <<"F1">>, <<"F3">>}

\* The formulas dicts: each key present or not, with the values of its
\* 'mapeamento' in the order of the dict.
FormulaDicts ==
  UNION {[K -> SeqsUpTo(ColumnNames, MaxDeps)] : K \in SUBSET Range(FormulaKeyOrder)}

\* formulas.items(): the keys present, in dict order
RECURSIVE ItemsFrom(_, _)
ItemsFrom(d, i) ==
  IF i > Len(FormulaKeyOrder) THEN <<>>
  ELSE (IF FormulaKeyOrder[i] \in DOMAIN d THEN <<FormulaKeyOrder[i]>> ELSE <<>>)
         \o ItemsFrom(d, i + 1)

\* the (col_formula, col_ref) pairs the two nested loops of
\* analisar_cadeia_impacto go through (lines 121-127), in order
RECURSIVE ChainPairsFrom(_, _)
ChainPairsFrom(d, items) ==
  IF items = <<>> THEN <<>>
  ELSE [j \in DOMAIN d[Head(items)] |->
          [col_formula |-> Head(items), col_ref |-> d[Head(items)][j]]]
         \o ChainPairsFrom(d, Tail(items))

ChainPairs(d) == ChainPairsFrom(d, ItemsFrom(d, 1))

\* The orders in which a Python set may be iterated.
Orderings(S) == {q \in [1..Cardinality(S) -> S] : Range(q) = S}

\* filter of a list, keeping the order
RECURSIVE SelectSeqBy(_, _)
SelectSeqBy(q, dotted) ==
  IF q = <<>> THEN <<>>
  ELSE (IF HasDot(Head(q)) = dotted THEN <<Head(q)>> ELSE <<>>)
         \o SelectSeqBy(Tail(q), dotted)

ImpactInit ==
  /\ ipc = "chain"
  /\ formulas \in FormulaDicts
  /\ chain_idx = 1
  /\ cadeia_impacto = EmptyMap
  /\ cadeia_order = <<>>
  /\ cascata_idx = 1
  /\ impacto_cascata = EmptyMap
  /\ GraphIdle /\ DiscoverIdle /\ TranslateIdle /\ AnalyzeIdle /\ ResultsIdle
  /\ SeverityIdle /\ RefsIdle /\ ReadIdle /\ ColumnsIdle

\* analisar_cadeia_impacto, lines 128-130: the set held for col_ref after
\* adding col_formula
ChainEntry(chain, col_ref, col_formula) ==
  Get(chain, col_ref, {}) \cup {col_formula}

\* analisar_cadeia_impacto, lines 121-133: one (formula, referenced column)
ChainAdd ==
  /\ ipc = "chain"
  /\ UNCHANGED notImpact
  /\ chain_idx <= Len(ChainPairs(formulas))
  /\ LET pair == ChainPairs(formulas)[chain_idx]
         col_ref == pair.col_ref
     IN /\ cadeia_impacto' =
             [c \in DOMAIN cadeia_impacto \cup {col_ref} |->
                IF c = col_ref
                  THEN ChainEntry(cadeia_impacto, col_ref, pair.col_formula)
                  ELSE cadeia_impacto[c]]
        /\ cadeia_order' = IF col_ref \in DOMAIN cadeia_impacto
                             THEN cadeia_order
                             ELSE Append(cadeia_order, col_ref)
  /\ chain_idx' = chain_idx + 1
  /\ UNCHANGED <<ipc, formulas, cascata_idx, impacto_cascata>>

\* analisar_cadeia_impacto, line 135: return cadeia_impacto
ChainReturn ==
  /\ ipc = "chain"
  /\ UNCHANGED notImpact
  /\ chain_idx > Len(ChainPairs(formulas))
  /\ ipc' = "cascata"
  /\ UNCHANGED <<formulas, chain_idx, cadeia_impacto, cadeia_order,
                 cascata_idx, impacto_cascata>>

\* main, lines 228-247: the record of one origin column; the set of the
\* affected names is iterated in an arbitrary order
CascataAdd ==
  /\ ipc = "cascata"
  /\ UNCHANGED notImpact
  /\ cascata_idx <= Len(cadeia_order)
  /\ LET col_origem == cadeia_order[cascata_idx]
         cols_afetadas == cadeia_impacto[col_origem]
     IN \E q \in Orderings(cols_afetadas) :
          impacto_cascata' =
            [c \in DOMAIN impacto_cascata \cup
                     (IF cols_afetadas # {} THEN {col_origem} ELSE {}) |->
               IF c = col_origem
                 THEN [columns |-> SelectSeqBy(q, FALSE),
                       formulas |-> SelectSeqBy(q, TRUE)]
                 ELSE impacto_cascata[c]]
  /\ cascata_idx' = cascata_idx + 1
  /\ UNCHANGED <<ipc, formulas, chain_idx, cadeia_impacto, cadeia_order>>

\* main, line 249: extra_info['impacto_cascata'] = impacto_cascata
CascataReturn ==
  /\ ipc = "cascata"
  /\ UNCHANGED notImpact
  /\ cascata_idx > Len(cadeia_order)
  /\ ipc' = "done"
  /\ UNCHANGED <<formulas, chain_idx, cadeia_impacto, cadeia_order,
                 cascata_idx, impacto_cascata>>

ImpactNext ==
  \/ ChainAdd
  \/ ChainReturn
  \/ CascataAdd
  \/ CascataReturn

SpecImpact == ImpactInit /\ [][ImpactNext]_vars

\* ----------------------------------------------- properties of SpecImpact
\* the column names formula key f names in its translation map
DepsOf(f) == Range(formulas[f])

\* the names listed in the impact record of origin column x
AffectedList(x) == impacto_cascata[x].columns \o impacto_cascata[x].formulas

Occurrences(q, e) == Cardinality({i \in DOMAIN q : q[i] = e})

\* C3: when F1 names column X and F2 names F1's result column without
\* naming X, the impact record of origin X lists F1 and F2, each once.
C3_ImpactIsTransitive ==
  ipc = "done" =>
    \A f1 \in DOMAIN formulas : \A f2 \in DOMAIN formulas \ {f1} :
      \A x \in DepsOf(f1) :
        (<<LastPiece(f1)>> \in DepsOf(f2) /\ x \notin DepsOf(f2)) =>
           /\ x \in DOMAIN impacto_cascata
           /\ Occurrences(AffectedList(x), f1) = 1
           /\ Occurrences(AffectedList(x), f2) = 1

\* ========================================================= SpecDiscover
\* wb.sheetnames; a sheet title, like a header, is the sequence of the
\* pieces between its dots
DiscSheetNames == << <<"Sheet">>, <<"S">> >>

\* The row-1 values: <<>> is an empty cell, then the headers H and S.H
Headers == {<<>>, <<"H">>, <<"S", "H">>}

\* A column of a worksheet: its row-1 header and whether its cell in the
\* sample row holds a formula (a string starting with '=')
ColumnCells == [header : Headers, is_formula : BOOLEAN]

Worksheets == [DOMAIN DiscSheetNames -> [1..NumCols -> ColumnCells]]

\* discover_formulas, line 74: f"{sheet_name}.{header}", or the header alone
\* on the sheet named Sheet
FormulaKey(sheet_name, header) ==
  IF sheet_name # <<"Sheet">> THEN sheet_name \o header ELSE header

\* dict[key] = value
Put(d, k, v) == [x \in DOMAIN d \cup {k} |-> IF x = k THEN v ELSE d[x]]

\* dict.update(other)
Update(d, other) ==
  [x \in DOMAIN d \cup DOMAIN other |-> IF x \in DOMAIN other THEN other[x] ELSE d[x]]

DiscoverInit ==
  /\ dpc = "discover"
  /\ worksheets \in Worksheets
  /\ sheet_idx = 1
  /\ col_idx = 1
  /\ formulas_found = EmptyMap
  /\ all_formulas = EmptyMap
  /\ writes = <<>>
  /\ log = <<>>
  /\ GraphIdle /\ ImpactIdle /\ TranslateIdle /\ AnalyzeIdle /\ ResultsIdle
  /\ SeverityIdle /\ RefsIdle /\ ReadIdle /\ ColumnsIdle

\* discover_formulas, lines 57-87: one column of the sheet
DiscoverColumn ==
  /\ dpc = "discover"
  /\ UNCHANGED notDiscover
  /\ sheet_idx <= Len(DiscSheetNames)
  /\ col_idx <= NumCols
  /\ LET sheet_name == DiscSheetNames[sheet_idx]
         header == worksheets[sheet_idx][col_idx].header
         formula_key == FormulaKey(sheet_name, header)
     IN IF header # <<>> /\ worksheets[sheet_idx][col_idx].is_formula
          THEN /\ formulas_found' =
                    Put(formulas_found, formula_key,
                        [header |-> header, column |-> col_idx, aba |-> sheet_name])
               /\ writes' = Append(writes, [aba |-> sheet_name, header |-> header,
                                            column |-> col_idx, key |-> formula_key])
               /\ log' = Append(log, [level |-> "info", event |-> "formula_found",
                                      column |-> col_idx, header |-> header])
          ELSE UNCHANGED <<formulas_found, writes, log>>
  /\ col_idx' = col_idx + 1
  /\ UNCHANGED <<dpc, worksheets, sheet_idx, all_formulas>>

\* discover_formulas, lines 89-91, and discover_all_sheets, line 425: the
\* formulas of the sheet are returned and merged into all_formulas
DiscoverSheetReturn ==
  /\ dpc = "discover"
  /\ UNCHANGED notDiscover
  /\ sheet_idx <= Len(DiscSheetNames)
  /\ col_idx > NumCols
  /\ all_formulas' = Update(all_formulas, formulas_found)
  /\ formulas_found' = EmptyMap
  /\ sheet_idx' = sheet_idx + 1
  /\ col_idx' = 1
  /\ UNCHANGED <<dpc, worksheets, writes, log>>

\* discover_all_sheets, lines 429-431: return all_formulas
DiscoverAllReturn ==
  /\ dpc = "discover"
  /\ UNCHANGED notDiscover
  /\ sheet_idx > Len(DiscSheetNames)
  /\ dpc' = "done"
  /\ UNCHANGED <<worksheets, sheet_idx, col_idx, formulas_found, all_formulas,
                 writes, log>>

DiscoverNext ==
  \/ DiscoverColumn
  \/ DiscoverSheetReturn
  \/ DiscoverAllReturn

SpecDiscover == DiscoverInit /\ [][DiscoverNext]_vars

\* --------------------------------------------- properties of SpecDiscover
\* C8: when two formula columns of one sheet carry the same header, the
\* later one replaces the earlier one in the result and the overwrite is
\* reported to the caller.
C8_OverwriteObservable ==
  dpc = "done" =>
    \A i \in DOMAIN writes : \A j \in DOMAIN writes :
      (i < j /\ writes[i].aba = writes[j].aba /\ writes[i].header = writes[j].header) =>
         /\ all_formulas[writes[i].key] #
              [header |-> writes[i].header, column |-> writes[i].column,
               aba |-> writes[i].aba]
         /\ \E e \in Range(log) : e.event = "overwrite"

\* C30: two formulas stored under the same key are of the same sheet and
\* the same header, so the formula a key holds at the end is the one stored
\* last for its sheet and header.
C30_FormulaKeysInjective ==
  /\ \A i, j \in DOMAIN writes :
       writes[i].key = writes[j].key =>
         (writes[i].aba = writes[j].aba /\ writes[i].header = writes[j].header)
  /\ dpc = "done" =>
       \A i \in DOMAIN writes :
         (\A j \in DOMAIN writes :
            (writes[j].aba = writes[i].aba /\ writes[j].header = writes[i].header)
              => j <= i) =>
           /\ writes[i].key \in DOMAIN all_formulas
           /\ all_formulas[writes[i].key] =
                [header |-> writes[i].header, column |-> writes[i].column,
                 aba |-> writes[i].aba]

\* ======================================================== SpecTranslate
\* A text is the sequence of its characters.
Upper == {"A", "B", "C", "D", "E", "F", "G", "H", "I", "J", "K", "L", "M",
          "N", "O", "P", "Q", "R", "S", "T", "U", "V", "W", "X", "Y", "Z"}

Lower == {"a", "b", "c", "d", "e", "f", "g", "h", "i", "j", "k", "l", "m",
          "n", "o", "p", "q", "r", "s", "t", "u", "v", "w", "x", "y", "z"}

Digits == {"0", "1", "2", "3", "4", "5", "6", "7", "8", "9"}

\* the class \w
WordChars == Upper \cup Lower \cup Digits \cup {"_"}

\* The characters of the formulas that are translated.
BodyChars == {"A", "B", "2", "+", "$", "!"}

\* cell.value.startswith('='): the formula texts
Formulas == {<<"=">> \o b : b \in SeqsUpTo(BodyChars, MaxBody)}

SALARIO == <<"S", "A", "L", "A", "R", "I", "O">>
BONUS == <<"B", "O", "N", "U", "S">>
VR == <<"V", "R">>

\* header_traducao of a mapping: column letters (and, for the multi-sheet
\* translator, Sheet!Column keys) to semantic names
MapAB == (<<"A">> :> SALARIO) @@ (<<"B">> :> BONUS)
MapA == (<<"A">> :> SALARIO)
MapSheet == (<<"A">> :> SALARIO) @@ (<<"B", "!", "A">> :> VR)

\* a sheet-qualified key whose name is written like a cell reference (the
\* header B2) of a column that is a key too
MapShaped == (<<"B">> :> BONUS) @@ (<<"B", "!", "A">> :> <<"B", "2">>)

TranslationMaps == {MapAB, MapA, MapSheet, MapShaped}

IsWordAt(s, i) == i \in DOMAIN s /\ s[i] \in WordChars

\* \b just before character i (i = Len(s) + 1: at the end)
WordBoundary(s, i) == IsWordAt(s, i - 1) # IsWordAt(s, i)

\* where the longest run of characters of class C that starts at i ends
\* (the position after its last character; i when the run is empty)
RunEnd(s, i, C) ==
  CHOOSE j \in i..(Len(s) + 1) :
    /\ \A k \in i..(j - 1) : s[k] \in C
    /\ j = Len(s) + 1 \/ s[j] \notin C

NoMatch == [start |-> 0]

\* the match of cell_ref_pattern, \b([A-Z]+)(\d+)\b, that starts at i:
\* the letters then the digits, each as long as the rest allows (greedy,
\* with backtracking)
CellRefMatchAt(s, i) ==
  LET cands == {c \in ((i + 1)..RunEnd(s, i, Upper)) \X ((i + 2)..(Len(s) + 1)) :
                  /\ c[1] < c[2]
                  /\ c[2] <= RunEnd(s, c[1], Digits)
                  /\ WordBoundary(s, c[2])}
  IN IF ~WordBoundary(s, i) \/ cands = {} THEN NoMatch
     ELSE LET c == CHOOSE c \in cands : \A c2 \in cands :
                     c2[1] < c[1] \/ (c2[1] = c[1] /\ c2[2] <= c[2])
          IN [start |-> i, end |-> c[2], col |-> SubSeq(s, i, c[1] - 1)]

\* cell_ref_pattern.finditer(s): the matches from left to right, each
\* search starting where the match before it ended
RECURSIVE CellRefFindFrom(_, _)
CellRefFindFrom(s, pos) ==
  IF pos > Len(s) THEN <<>>
  ELSE LET m == CellRefMatchAt(s, pos)
       IN IF m = NoMatch THEN CellRefFindFrom(s, pos + 1)
          ELSE <<m>> \o CellRefFindFrom(s, m.end)

CellRefFindIter(s) == CellRefFindFrom(s, 1)

\* the match of sheet_ref_pattern, (\w+)!([A-Z]+)(\d+), that starts at i
SheetRefMatchAt(s, i) ==
  LET cands == {c \in ((i + 1)..RunEnd(s, i, WordChars)) \X
                      ((i + 3)..(Len(s) + 1)) \X ((i + 4)..(Len(s) + 1)) :
                  /\ c[1] <= Len(s) /\ s[c[1]] = "!"
                  /\ c[1] + 1 < c[2] /\ c[2] <= RunEnd(s, c[1] + 1, Upper)
                  /\ c[2] < c[3] /\ c[3] <= RunEnd(s, c[2], Digits)}
  IN IF cands = {} THEN NoMatch
     ELSE LET c == CHOOSE c \in cands : \A c2 \in cands :
                     \/ c2[1] < c[1]
                     \/ (c2[1] = c[1] /\ c2[2] < c[2])
                     \/ (c2[1] = c[1] /\ c2[2] = c[2] /\ c2[3] <= c[3])
          IN [start |-> i, end |-> c[3], sheet |-> SubSeq(s, i, c[1] - 1),
              col |-> SubSeq(s, c[1] + 1, c[2] - 1)]

\* sheet_ref_pattern.finditer(s)
RECURSIVE SheetRefFindFrom(_, _)
SheetRefFindFrom(s, pos) ==
  IF pos > Len(s) THEN <<>>
  ELSE LET m == SheetRefMatchAt(s, pos)
       IN IF m = NoMatch THEN SheetRefFindFrom(s, pos + 1)
          ELSE <<m>> \o SheetRefFindFrom(s, m.end)

SheetRefFindIter(s) == SheetRefFindFrom(s, 1)

\* translated[:start] + new_name + translated[end:]
Splice(text, m, new_name) ==
  SubSeq(text, 1, m.start - 1) \o new_name \o SubSeq(text, m.end, Len(text))

\* _translate_formula, lines 294-306: the matches k, k-1, ..., 1
RECURSIVE ApplyCellRefs(_, _, _, _)
ApplyCellRefs(text, matches, k, map) ==
  IF k = 0 THEN text
  ELSE ApplyCellRefs(IF matches[k].col \in DOMAIN map
                       THEN Splice(text, matches[k], map[matches[k].col])
                       ELSE text,
                     matches, k - 1, map)

\* the matches 1, 2, ..., each spliced at its span in the original text
RECURSIVE ApplyCellRefsForward(_, _, _, _)
ApplyCellRefsForward(text, matches, k, map) ==
  IF k > Len(matches) THEN text
  ELSE ApplyCellRefsForward(IF matches[k].col \in DOMAIN map
                              THEN Splice(text, matches[k], map[matches[k].col])
                              ELSE text,
                            matches, k + 1, map)

\* _translate_formula with the substitutions applied first to last
TranslateFormulaForward(text, map) ==
  ApplyCellRefsForward(text, CellRefFindIter(text), 1, map)

\* _translate_formula
TranslateFormula(text, map) ==
  LET matches == CellRefFindIter(text)
  IN ApplyCellRefs(text, matches, Len(matches), map)

\* _translate_formula_multi_sheet, lines 204-213
RECURSIVE ApplySheetRefs(_, _, _, _)
ApplySheetRefs(text, matches, k, map) ==
  IF k = 0 THEN text
  ELSE LET full_ref == matches[k].sheet \o <<"!">> \o matches[k].col
       IN ApplySheetRefs(IF full_ref \in DOMAIN map
                           THEN Splice(text, matches[k], map[full_ref])
                           ELSE text,
                         matches, k - 1, map)

\* the local references 1, 2, ..., each spliced at the span it had before
\* the substitutions
RECURSIVE ApplyLocalRefsForward(_, _, _, _)
ApplyLocalRefsForward(text, matches, k, map) ==
  IF k > Len(matches) THEN text
  ELSE LET pos == matches[k].start
       IN ApplyLocalRefsForward(
            IF pos > 1 /\ text[pos - 1] = "!" THEN text
            ELSE IF matches[k].col \in DOMAIN map
              THEN Splice(text, matches[k], map[matches[k].col])
              ELSE text,
            matches, k + 1, map)

\* the second loop of _translate_formula_multi_sheet run first to last
ApplyLocalRefsFirstToLast(text, matches, k, map) ==
  ApplyLocalRefsForward(text, matches, 1, map)

\* _translate_formula_multi_sheet, lines 217-228
RECURSIVE ApplyLocalRefs(_, _, _, _)
ApplyLocalRefs(text, matches, k, map) ==
  IF k = 0 THEN text
  ELSE LET pos == matches[k].start
       IN ApplyLocalRefs(IF pos > 1 /\ text[pos - 1] = "!" THEN text
                         ELSE IF matches[k].col \in DOMAIN map
                           THEN Splice(text, matches[k], map[matches[k].col])
                           ELSE text,
                         matches, k - 1, map)

\* _translate_formula_multi_sheet
TranslateFormulaMultiSheet(text, map) ==
  LET sheet_refs == SheetRefFindIter(text)
      after_sheets == ApplySheetRefs(text, sheet_refs, Len(sheet_refs), map)
      local_refs == CellRefFindIter(after_sheets)
  IN ApplyLocalRefs(after_sheets, local_refs, Len(local_refs), map)

TranslateInit ==
  /\ tpc = "input"
  /\ formula \in Formulas
  /\ translation_map \in TranslationMaps
  /\ translated = <<>>
  /\ GraphIdle /\ ImpactIdle /\ DiscoverIdle /\ AnalyzeIdle /\ ResultsIdle
  /\ SeverityIdle /\ RefsIdle /\ ReadIdle /\ ColumnsIdle

\* _extract_single_sheet, line 101: _translate_formula on the formula
TranslateSingle ==
  /\ tpc = "input"
  /\ UNCHANGED notTranslate
  /\ translated' = TranslateFormula(formula, translation_map)
  /\ tpc' = "single"
  /\ UNCHANGED <<formula, translation_map>>

\* _extract_multi_sheet, line 170: _translate_formula_multi_sheet
TranslateMulti ==
  /\ tpc = "input"
  /\ UNCHANGED notTranslate
  /\ translated' = TranslateFormulaMultiSheet(formula, translation_map)
  /\ tpc' = "multi"
  /\ UNCHANGED <<formula, translation_map>>

TranslateNext ==
  \/ TranslateSingle
  \/ TranslateMulti

SpecTranslate == TranslateInit /\ [][TranslateNext]_vars

\* -------------------------------------------- properties of SpecTranslate
\* every key of the map is a column letter string
IsColumnMap(map) == \A key \in DOMAIN map : \A i \in DOMAIN key : key[i] \in Upper

\* a word made of one or more capital letters followed by one or more digits
IsCellRefWord(w) ==
  LET l == RunEnd(w, 1, Upper)
  IN l > 1 /\ l <= Len(w) /\ RunEnd(w, l, Digits) = Len(w) + 1

\* The text read from left to right, word by word: a word that is a cell
\* reference whose letters are a key of the map becomes the mapped name
\* (its row number dropped); with local_only, a reference that directly
\* follows '!' (a sheet-qualified one) is kept.  Everything else is copied.
RECURSIVE ReplaceWords(_, _, _, _)
ReplaceWords(s, pos, map, local_only) ==
  IF pos > Len(s) THEN <<>>
  ELSE IF s[pos] \notin WordChars
    THEN <<s[pos]>> \o ReplaceWords(s, pos + 1, map, local_only)
    ELSE LET e == RunEnd(s, pos, WordChars)
             w == SubSeq(s, pos, e - 1)
             letters == SubSeq(w, 1, RunEnd(w, 1, Upper) - 1)
             qualified == pos > 1 /\ s[pos - 1] = "!"
         IN (IF IsCellRefWord(w) /\ letters \in DOMAIN map
                  /\ ~(local_only /\ qualified)
               THEN map[letters] ELSE w)
              \o ReplaceWords(s, e, map, local_only)

\* C9: with a column-letter map, the translation is the formula with every
\* cell reference whose letters are in the map replaced by the mapped name,
\* row number dropped (the multi-sheet translator keeps the references that
\* follow '!'); "=A2+B2" with {A: SALARIO, B: BONUS} gives "=SALARIO+BONUS".
C9_TranslatesMappedReferences ==
  /\ (tpc = "single" /\ IsColumnMap(translation_map)) =>
        translated = ReplaceWords(formula, 1, translation_map, FALSE)
  /\ (tpc = "multi" /\ IsColumnMap(translation_map)) =>
        translated = ReplaceWords(formula, 1, translation_map, TRUE)
  /\ (tpc \in {"single", "multi"} /\ translation_map = MapAB
        /\ formula = <<"=", "A", "2", "+", "B", "2">>) =>
        translated = <<"=">> \o SALARIO \o <<"+">> \o BONUS

C9_Witness ==
  /\ tpc = "multi"
  /\ translation_map = MapAB
  /\ formula = <<"=", "A", "2", "+", "B", "2">>
  /\ translated = <<"=">> \o SALARIO \o <<"+">> \o BONUS

\* the four ways to write the reference to column c, row r
Variants(c, r) == {<<c, r>>, <<"$", c, r>>, <<c, "$", r>>, <<"$", c, "$", r>>}

\* C10: a formula that is one reference to a mapped column, written in any
\* of the four variants A1, $A1, A$1, $A$1, translates to the mapped name.
C10_AbsoluteVariantsTranslated ==
  tpc \in {"single", "multi"} =>
    \A c \in {"A", "B"} : \A v \in Variants(c, "2") :
      (<<c>> \in DOMAIN translation_map /\ formula = <<"=">> \o v) =>
         translated = <<"=">> \o translation_map[<<c>>]

\* The text rebuilt from left to right over the spans of the matches k..:
\* the text between the spans copied, each span replaced by the name of its
\* key when the key is in the map (and, with local_only, the span does not
\* follow '!'), and copied otherwise.
RECURSIVE RebuildOverSpans(_, _, _, _, _, _)
RebuildOverSpans(s, matches, k, pos, map, local_only) ==
  IF k > Len(matches) THEN SubSeq(s, pos, Len(s))
  ELSE LET m == matches[k]
           key == IF "sheet" \in DOMAIN m THEN m.sheet \o <<"!">> \o m.col
                  ELSE m.col
           qualified == m.start > 1 /\ s[m.start - 1] = "!"
       IN SubSeq(s, pos, m.start - 1)
            \o (IF key \in DOMAIN map /\ ~(local_only /\ qualified)
                  THEN map[key] ELSE SubSeq(s, m.start, m.end - 1))
            \o RebuildOverSpans(s, matches, k + 1, m.end, map, local_only)

\* the text after the first loop of the multi-sheet translator
AfterSheetRefs(s, map) ==
  RebuildOverSpans(s, SheetRefFindIter(s), 1, 1, map, FALSE)

\* C24: each substitution of a translator lands on the span of the
\* reference it was matched at, in the text the references were matched in,
\* and the text outside the replaced spans is unchanged, the references
\* whose key is not in the map included.
C24_SubstitutionsLandOnSpans ==
  /\ tpc = "single" =>
       translated = RebuildOverSpans(formula, CellRefFindIter(formula), 1, 1,
                                     translation_map, FALSE)
  /\ tpc = "multi" =>
       LET mid == AfterSheetRefs(formula, translation_map)
       IN translated = RebuildOverSpans(mid, CellRefFindIter(mid), 1, 1,
                                        translation_map, TRUE)
  /\ (tpc = "single"
        /\ \A k \in 1..Len(CellRefFindIter(formula)) :
             CellRefFindIter(formula)[k].col \notin DOMAIN translation_map) =>
       translated = formula

C24_Witness ==
  /\ tpc = "multi"
  /\ translation_map = MapA
  /\ formula = <<"=", "A", "2", "+", "B", "2">>
  /\ translated = <<"=">> \o SALARIO \o <<"+", "B", "2">>

\* The references of the original text the multi-sheet translator is to
\* replace: the sheet-qualified matches whose key is in the map, and the
\* local matches, outside those, whose letters are in the map; in the order
\* of their spans.
MappedSheetRefs(s, map) ==
  LET found == SheetRefFindIter(s)
  IN {found[k] : k \in {i \in 1..Len(found) :
        found[i].sheet \o <<"!">> \o found[i].col \in DOMAIN map}}

MappedLocalRefs(s, map) ==
  LET found == CellRefFindIter(s)
  IN {found[k] : k \in {i \in 1..Len(found) :
        /\ found[i].col \in DOMAIN map
        /\ ~(found[i].start > 1 /\ s[found[i].start - 1] = "!")
        /\ \A q \in MappedSheetRefs(s, map) :
             found[i].end <= q.start \/ q.end <= found[i].start}}

\* the name that replaces a reference
NameOfRef(m, map) ==
  IF "sheet" \in DOMAIN m THEN map[m.sheet \o <<"!">> \o m.col] ELSE map[m.col]

\* all of them replaced at once: the text read from left to right
RECURSIVE ReplaceAtOnce(_, _, _, _)
ReplaceAtOnce(s, refs, pos, map) ==
  IF pos > Len(s) THEN <<>>
  ELSE IF \E m \in refs : m.start = pos
    THEN LET m == CHOOSE m \in refs : m.start = pos
         IN NameOfRef(m, map) \o ReplaceAtOnce(s, refs, m.end, map)
    ELSE <<s[pos]>> \o ReplaceAtOnce(s, refs, pos + 1, map)

\* C29: the multi-sheet translation is the formula with all its mapped
\* references replaced at once: a name put in for a sheet-qualified
\* reference is not itself translated by the loop over the local
\* references, whatever it is written like.
C29_InsertedNamesNotRewritten ==
  tpc = "multi" =>
    translated =
      ReplaceAtOnce(formula,
                    MappedSheetRefs(formula, translation_map)
                      \cup MappedLocalRefs(formula, translation_map),
                    1, translation_map)

\* ========================================================== SpecAnalyze
\* The re module, for patterns that are a sequence of items: a greedy
\* repetition of one character class (between min and max times), or a
\* negative lookbehind / lookahead of one character class.
Rep(class, min, max) == [kind |-> "rep", class |-> class, min |-> min, max |-> max]
NotBehind(class) == [kind |-> "notbehind", class |-> class, min |-> 0, max |-> 0]
NotAhead(class) == [kind |-> "notahead", class |-> class, min |-> 0, max |-> 0]

\* no upper limit of a repetition (longer than any text here)
Many == 99

OneOrMore(class) == Rep(class, 1, Many)
ZeroOrMore(class) == Rep(class, 0, Many)
Optional(class) == Rep(class, 0, 1)
Lit(c) == Rep({c}, 1, 1)

Min2(a, b) == IF a < b THEN a ELSE b

\* The match of items k.. at position i of s: the positions where each item
\* starts, followed by the position where the match ends; <<>> without a
\* match.  A repetition takes as much as it can and gives back one character
\* at a time while the rest does not match.
RECURSIVE MatchFrom(_, _, _, _)
RECURSIVE TryLen(_, _, _, _, _)
MatchFrom(items, k, s, i) ==
  IF k > Len(items) THEN <<i>>
  ELSE IF items[k].kind = "notbehind" /\ i > 1 /\ s[i - 1] \in items[k].class
    THEN <<>>
  ELSE IF items[k].kind = "notahead" /\ i <= Len(s) /\ s[i] \in items[k].class
    THEN <<>>
  ELSE IF items[k].kind = "rep"
    THEN TryLen(items, k, s, i,
                Min2(items[k].max, RunEnd(s, i, items[k].class) - i))
  ELSE TryLen(items, k, s, i, 0)

TryLen(items, k, s, i, n) ==
  IF n < items[k].min THEN <<>>
  ELSE LET rest == MatchFrom(items, k + 1, s, i + n)
       IN IF rest # <<>> THEN <<i>> \o rest
          ELSE TryLen(items, k, s, i, n - 1)

\* match.start(), match.end(), and the text item k of the pattern matched
MatchStart(mt) == mt[1]
MatchEnd(mt) == mt[Len(mt)]
Group(s, mt, k) == SubSeq(s, mt[k], mt[k + 1] - 1)

\* pattern.finditer(s) from position pos on: the matches from left to
\* right, none overlapping (no pattern here matches the empty text)
RECURSIVE FindIterFrom(_, _, _)
FindIterFrom(items, s, pos) ==
  IF pos > Len(s) THEN <<>>
  ELSE LET mt == MatchFrom(items, 1, s, pos)
       IN IF mt = <<>> THEN FindIterFrom(items, s, pos + 1)
          ELSE <<mt>> \o FindIterFrom(items, s, MatchEnd(mt))

FindIter(items, s) == FindIterFrom(items, s, 1)

\* pattern.sub('', s): s without the matches
RECURSIVE SubEmptyFrom(_, _, _, _)
SubEmptyFrom(s, matches, k, pos) ==
  IF k > Len(matches) THEN SubSeq(s, pos, Len(s))
  ELSE SubSeq(s, pos, MatchStart(matches[k]) - 1)
         \o SubEmptyFrom(s, matches, k + 1, MatchEnd(matches[k]))

SubEmpty(items, s) == SubEmptyFrom(s, FindIter(items, s), 1, 1)

\* patterns of _analyze_formula, lines 247-255
\* (\w+)!([A-Z]+)(\d+)
pattern_sheet_ref == <<OneOrMore(WordChars), Lit("!"), OneOrMore(Upper),
                       OneOrMore(Digits)>>

\* (\w+)!([A-Z]+)(\d*):([A-Z]+)(\d*)
pattern_sheet_range == <<OneOrMore(WordChars), Lit("!"), OneOrMore(Upper),
                         ZeroOrMore(Digits), Lit(":"), OneOrMore(Upper),
                         ZeroOrMore(Digits)>>

\* (\w+)!([A-Z]+):([A-Z]+)
pattern_sheet_col == <<OneOrMore(WordChars), Lit("!"), OneOrMore(Upper),
                       Lit(":"), OneOrMore(Upper)>>

\* (?<![A-Z!:])([A-Z]+):([A-Z]+)(?![A-Z])
pattern_col_ref == <<NotBehind(Upper \cup {"!", ":"}), OneOrMore(Upper),
                     Lit(":"), OneOrMore(Upper), NotAhead(Upper)>>

\* ([A-Z]+)(\d+) with the groups of mixed_ref: no '$' accepted
pattern_unmarked_ref == <<Rep({"$"}, 0, 0), OneOrMore(Upper), Rep({"$"}, 0, 0),
                          OneOrMore(Digits)>>

\* \$?([A-Z]+)\$?(\d+)
pattern_mixed_ref == <<Optional({"$"}), OneOrMore(Upper), Optional({"$"}),
                       OneOrMore(Digits)>>

\* No header: the value of an empty cell (None), falsy like the empty text.
NoHeader == <<>>

\* openpyxl.utils.column_index_from_string raises ValueError unless the
\* text is one to three letters, at most XFD (every column of one to three
\* of the letters used here is)
ValidColumn(col) == Len(col) \in 1..3

\* ws.cell(row=1, column=column_index_from_string(col)).value
HeaderOf(headers, col) == IF col \in DOMAIN headers THEN headers[col] ELSE NoHeader

\* The other worksheets of the workbook (worksheet.parent), by name, each
\* with its row 1: a sheet S whose column A has the header G.  No sheet is
\* named T.
OtherSheets == (<<"S">> :> (<<"A">> :> <<"G">>))

\* f"{sheet}!{name}"
SheetQualified(sheet, name) == sheet \o <<"!">> \o name

\* f"{col1}:{col2}"
ColSpan(col1, col2) == col1 \o <<":">> \o col2

\* the three lists _analyze_formula fills, lines 257-259
EmptyInfo == [dependencies |-> <<>>, sheet_references |-> <<>>,
              header_traducao |-> EmptyMap]

AddDependency(info, name) ==
  [info EXCEPT !.dependencies = Append(@, name)]

AddSheetReference(info, sheet) ==
  [info EXCEPT !.sheet_references = Append(@, sheet)]

AddTranslation(info, key, name) ==
  [info EXCEPT !.header_traducao = Put(@, key, name)]

\* lines 262-279: one match of sheet_col
SheetColStep(info, s, mt, book) ==
  LET sheet == Group(s, mt, 1)
      col1 == Group(s, mt, 3)
      col2 == Group(s, mt, 5)
      info1 == AddSheetReference(info, sheet)
  IN IF sheet \in DOMAIN book /\ ValidColumn(col1)
          /\ HeaderOf(book[sheet], col1) # NoHeader
       THEN AddTranslation(
              AddDependency(info1, SheetQualified(sheet, HeaderOf(book[sheet], col1))),
              SheetQualified(sheet, ColSpan(col1, col2)),
              HeaderOf(book[sheet], col1))
       ELSE info1

\* lines 282-305: one match of sheet_range
SheetRangeStep(info, s, mt, book) ==
  LET sheet == Group(s, mt, 1)
      col1 == Group(s, mt, 3)
      col2 == Group(s, mt, 6)
      info1 == AddSheetReference(info, sheet)
      header1 == HeaderOf(book[sheet], col1)
      header2 == HeaderOf(book[sheet], col2)
      info2 == IF header1 # NoHeader
                 THEN AddDependency(info1, SheetQualified(sheet, header1))
                 ELSE info1
  IN IF sheet \notin DOMAIN book \/ ~ValidColumn(col1) THEN info1
     ELSE IF col1 # col2 /\ ValidColumn(col2) /\ header2 # NoHeader
               /\ header2 # header1
       THEN AddDependency(info2, SheetQualified(sheet, header2))
       ELSE info2

\* lines 308-335: one match of sheet_ref.  The text of the match is part
\* of the formula, so the test of line 314 succeeds.
SheetRefStep(info, s, mt, book) ==
  LET sheet == Group(s, mt, 1)
      col == Group(s, mt, 3)
      info1 == AddSheetReference(info, sheet)
  IN IF sheet \in DOMAIN book /\ ValidColumn(col)
          /\ HeaderOf(book[sheet], col) # NoHeader
       THEN AddTranslation(
              AddDependency(info1, SheetQualified(sheet, HeaderOf(book[sheet], col))),
              SheetQualified(sheet, col),
              HeaderOf(book[sheet], col))
       ELSE AddTranslation(
              AddDependency(info1, SheetQualified(sheet, col)),
              SheetQualified(sheet, col),
              SheetQualified(sheet, col))

\* lines 338-350: one match of col_ref, looked up in the cell's worksheet
ColRefStep(info, s, mt, headers) ==
  LET col1 == Group(s, mt, 2)
      col2 == Group(s, mt, 4)
  IN IF ValidColumn(col1) /\ HeaderOf(headers, col1) # NoHeader
       THEN AddTranslation(AddDependency(info, HeaderOf(headers, col1)),
                           ColSpan(col1, col2), HeaderOf(headers, col1))
       ELSE info

\* str.isalpha() of one character
IsAlpha(c) == c \in Upper \cup Lower

\* lines 359-384: one match of mixed_ref in formula_clean
MixedRefStep(info, formula_clean, mt, headers) ==
  LET col == Group(formula_clean, mt, 2)
      pos == MatchStart(mt)
      header == HeaderOf(headers, col)
  IN IF pos > 1 /\ IsAlpha(formula_clean[pos - 1]) THEN info
     ELSE IF ValidColumn(col) /\ header # NoHeader
       THEN AddTranslation(AddTranslation(AddTranslation(AddTranslation(
              AddDependency(info, header),
              col, header),
              <<"$">> \o col, header),
              col \o <<"$">>, header),
              <<"$">> \o col \o <<"$">>, header)
       ELSE AddTranslation(AddDependency(info, col), col, col)

\* the for loops of _analyze_formula: the matches k.. of one pattern
RECURSIVE SheetColLoop(_, _, _, _, _)
SheetColLoop(info, s, matches, k, book) ==
  IF k > Len(matches) THEN info
  ELSE SheetColLoop(SheetColStep(info, s, matches[k], book), s, matches, k + 1, book)

RECURSIVE SheetRangeLoop(_, _, _, _, _)
SheetRangeLoop(info, s, matches, k, book) ==
  IF k > Len(matches) THEN info
  ELSE SheetRangeLoop(SheetRangeStep(info, s, matches[k], book), s, matches, k + 1, book)

RECURSIVE SheetRefLoop(_, _, _, _, _)
SheetRefLoop(info, s, matches, k, book) ==
  IF k > Len(matches) THEN info
  ELSE SheetRefLoop(SheetRefStep(info, s, matches[k], book), s, matches, k + 1, book)

RECURSIVE ColRefLoop(_, _, _, _, _)
ColRefLoop(info, s, matches, k, headers) ==
  IF k > Len(matches) THEN info
  ELSE ColRefLoop(ColRefStep(info, s, matches[k], headers), s, matches, k + 1, headers)

RECURSIVE MixedRefLoop(_, _, _, _, _)
MixedRefLoop(info, s, matches, k, headers) ==
  IF k > Len(matches) THEN info
  ELSE MixedRefLoop(MixedRefStep(info, s, matches[k], headers), s, matches, k + 1, headers)

\* lines 354-356: the formula without its sheet-qualified references
FormulaClean(s) ==
  SubEmpty(pattern_sheet_col,
           SubEmpty(pattern_sheet_range, SubEmpty(pattern_sheet_ref, s)))

\* _analyze_formula(formula, worksheet, col_letter): list(set(...)) of the
\* dependencies and of the sheet references, and the translation map
AnalyzeFormulaText(s, headers, book) ==
  LET i1 == SheetColLoop(EmptyInfo, s, FindIter(pattern_sheet_col, s), 1, book)
      i2 == SheetRangeLoop(i1, s, FindIter(pattern_sheet_range, s), 1, book)
      i3 == SheetRefLoop(i2, s, FindIter(pattern_sheet_ref, s), 1, book)
      i4 == ColRefLoop(i3, s, FindIter(pattern_col_ref, s), 1, headers)
      clean == FormulaClean(s)
      i5 == MixedRefLoop(i4, clean, FindIter(pattern_mixed_ref, clean), 1, headers)
  IN [dependencies |-> Range(i5.dependencies),
      sheet_references |-> Range(i5.sheet_references),
      header_traducao |-> i5.header_traducao]

\* the placeholder of _generalize_formula, "{row}"
RowPlaceholder == <<"{", "r", "o", "w", "}">>

\* ([A-Z]+)(\d+), line 400
pattern_row_ref == <<OneOrMore(Upper), OneOrMore(Digits)>>

\* pattern.sub(r'\1{row}', s): each match replaced by its letters and the
\* placeholder
RECURSIVE SubRowFrom(_, _, _, _)
SubRowFrom(s, matches, k, pos) ==
  IF k > Len(matches) THEN SubSeq(s, pos, Len(s))
  ELSE SubSeq(s, pos, MatchStart(matches[k]) - 1)
         \o Group(s, matches[k], 1) \o RowPlaceholder
         \o SubRowFrom(s, matches, k + 1, MatchEnd(matches[k]))

\* the same with a placeholder that ends in a capital letter and a digit
RECURSIVE SubRowTagFrom(_, _, _, _)
SubRowTagFrom(s, matches, k, pos) ==
  IF k > Len(matches) THEN SubSeq(s, pos, Len(s))
  ELSE SubSeq(s, pos, MatchStart(matches[k]) - 1)
         \o Group(s, matches[k], 1) \o <<"_", "R", "0">>
         \o SubRowTagFrom(s, matches, k + 1, MatchEnd(matches[k]))

GeneralizeFormulaRowTag(s) == SubRowTagFrom(s, FindIter(pattern_row_ref, s), 1, 1)

\* _generalize_formula
GeneralizeFormula(s) == SubRowFrom(s, FindIter(pattern_row_ref, s), 1, 1)

\* The pieces the formula of a cell is written with.
Pieces == {<<"A">>, <<"B">>, <<"2">>, <<"$">>, <<":">>, <<"+">>,
           <<"S", "!">>, <<"T", "!">>, RowPlaceholder}

RECURSIVE Concat(_)
Concat(q) == IF q = <<>> THEN <<>> ELSE Head(q) \o Concat(Tail(q))

\* cell.value.startswith('='), line 66
FormulaTexts == {<<"=">> \o Concat(q) : q \in SeqsUpTo(Pieces, MaxPieces)}

\* Row 1 of the worksheet of the cell.
HomeHeaders == {(<<"A">> :> <<"H">>) @@ (<<"B">> :> <<"K">>),
                (<<"A">> :> <<"H">>),
                (<<"A">> :> <<"H">>) @@ (<<"B">> :> <<"H">>)}

AnalyzeInit ==
  /\ apc = "cell"
  /\ formula_text \in FormulaTexts
  /\ home_headers \in HomeHeaders
  /\ formula_info = EmptyMap
  /\ formula_pattern = <<>>
  /\ GraphIdle /\ ImpactIdle /\ DiscoverIdle /\ TranslateIdle /\ ResultsIdle
  /\ SeverityIdle /\ RefsIdle /\ ReadIdle /\ ColumnsIdle

\* discover_formulas, line 71: formula_info = self._analyze_formula(...)
AnalyzeCell ==
  /\ apc = "cell"
  /\ UNCHANGED notAnalyze
  /\ formula_info' = AnalyzeFormulaText(formula_text, home_headers, OtherSheets)
  /\ apc' = "analyzed"
  /\ UNCHANGED <<formula_text, home_headers, formula_pattern>>

\* discover_formulas, line 80: 'formula_pattern': self._generalize_formula(formula)
GeneralizeCell ==
  /\ apc = "analyzed"
  /\ UNCHANGED notAnalyze
  /\ formula_pattern' = GeneralizeFormula(formula_text)
  /\ apc' = "stored"
  /\ UNCHANGED <<formula_text, home_headers, formula_info>>

AnalyzeNext ==
  \/ AnalyzeCell
  \/ GeneralizeCell

SpecAnalyze == AnalyzeInit /\ [][AnalyzeNext]_vars

\* ---------------------------------------------- properties of SpecAnalyze
\* a reference to a cell of the worksheet of the formula, in any of the forms
\* A1, $A1, A$1, $A$1: not part of a longer word, not sheet-qualified
LocalVariant == <<NotBehind(WordChars \cup {"!", "$"}), Optional({"$"}),
                  OneOrMore(Upper), Optional({"$"}), OneOrMore(Digits)>>

\* the match does not directly follow "letters:", the start of a column span
StandsAlone(s, mt) ==
  ~(MatchStart(mt) > 2 /\ s[MatchStart(mt) - 1] = ":"
      /\ s[MatchStart(mt) - 2] \in Upper)

\* every '$' of s is the marker of a local cell reference
DollarsMarkLocalRefs(s) ==
  \A i \in DOMAIN s : s[i] = "$" =>
    \E j \in 1..Len(FindIter(LocalVariant, s)) :
      /\ MatchStart(FindIter(LocalVariant, s)[j]) <= i
      /\ i < MatchEnd(FindIter(LocalVariant, s)[j])
      /\ StandsAlone(s, FindIter(LocalVariant, s)[j])

\* s with its '$' markers removed: every reference in the form A1
RECURSIVE Plain(_)
Plain(s) ==
  IF s = <<>> THEN <<>>
  ELSE (IF Head(s) = "$" THEN <<>> ELSE <<Head(s)>>) \o Plain(Tail(s))

\* C11: the forms A1, $A1, A$1, $A$1 of a local reference resolve alike: a
\* formula contributes the dependencies of the same formula written with
\* plain references, and a formula that is one reference to column A, in
\* any of the four forms, depends on the row-1 header of A.
C11_VariantsResolveAlike ==
  apc \in {"analyzed", "stored"} =>
    /\ DollarsMarkLocalRefs(formula_text) =>
         formula_info.dependencies =
           AnalyzeFormulaText(Plain(formula_text), home_headers, OtherSheets).dependencies
    /\ formula_text \in {<<"=">> \o v : v \in Variants("A", "2")} =>
         formula_info.dependencies = {home_headers[<<"A">>]}

C11_Witness ==
  /\ apc = "analyzed"
  /\ formula_text = <<"=", "$", "A", "$", "2">>
  /\ formula_info.dependencies = {<<"H">>}

\* a reference in any of the forms A1, $A1, A$1, $A$1
AnyVariant == <<Optional({"$"}), OneOrMore(Upper), Optional({"$"}),
                OneOrMore(Digits)>>

\* s with the row number of every reference replaced by 57
RECURSIVE OtherRowsFrom(_, _, _, _)
OtherRowsFrom(s, matches, k, pos) ==
  IF k > Len(matches) THEN SubSeq(s, pos, Len(s))
  ELSE SubSeq(s, pos, matches[k][4] - 1) \o <<"5", "7">>
         \o OtherRowsFrom(s, matches, k + 1, MatchEnd(matches[k]))

OtherRows(s) == OtherRowsFrom(s, FindIter(AnyVariant, s), 1, 1)

\* C12: the formula that differs from the cell's formula only in the row
\* numbers of its references (forms A1, $A1, A$1, $A$1) generalizes to the
\* same pattern.
C12_RowsGeneralized ==
  apc = "stored" => GeneralizeFormula(OtherRows(formula_text)) = formula_pattern

\* C13: generalizing the pattern of a formula again gives the same pattern.
C13_GeneralizeIdempotent ==
  apc = "stored" => GeneralizeFormula(formula_pattern) = formula_pattern

C13_Witness ==
  /\ apc = "stored"
  /\ formula_text = <<"=", "A", "2", "+">> \o RowPlaceholder
  /\ formula_pattern = <<"=", "A">> \o RowPlaceholder \o <<"+">> \o RowPlaceholder

\* the sheet-qualified references of s (cells, ranges, column spans)
SheetQualifiedRefs(s) ==
  UNION {Range(FindIter(pt, s)) :
           pt \in {pattern_sheet_ref, pattern_sheet_range, pattern_sheet_col}}

\* C18: every sheet-qualified reference (cell, range or column span) to a
\* sheet the workbook does not have gives the dependency "sheet!column".
C18_MissingSheetFallback ==
  apc \in {"analyzed", "stored"} =>
    \A mt \in SheetQualifiedRefs(formula_text) :
      Group(formula_text, mt, 1) \notin DOMAIN OtherSheets =>
        SheetQualified(Group(formula_text, mt, 1), Group(formula_text, mt, 3))
          \in formula_info.dependencies

\* the columns of the worksheet of the cell
HomeColumns == {<<"A">>, <<"B">>}

\* the row-1 header of the column is empty, or another column of the sheet
\* has the same header
HeaderUnusable(headers, col) ==
  \/ HeaderOf(headers, col) = NoHeader
  \/ \E other \in HomeColumns \ {col} :
       HeaderOf(headers, other) = HeaderOf(headers, col)

\* C21: a column whose row-1 header is empty or is the header of another
\* column of the sheet resolves to its column letter, and no two columns of
\* the sheet resolve to the same name.
C21_UnusableHeaderUnmapped ==
  apc # "cell" =>
    LET resolved == formula_info.header_traducao
        cols == HomeColumns \cap DOMAIN resolved
    IN /\ \A col \in cols :
            HeaderUnusable(home_headers, col) => resolved[col] = col
       /\ \A c1, c2 \in cols : resolved[c1] = resolved[c2] => c1 = c2

\* ----------------------------------------------------- formulas with calls
\* The pieces of the formulas that call functions.
CallPieces == {<<"L", "O", "G", "1", "0", "(">>, <<"A", "T", "A", "N", "2", "(">>,
               <<"S", "U", "M", "(">>, <<"A", "2">>, <<",">>, <<")">>}

CallTexts == {<<"=">> \o Concat(q) : q \in SeqsUpTo(CallPieces, MaxCallPieces)}

AnalyzeCallInit ==
  /\ apc = "cell"
  /\ formula_text \in CallTexts
  /\ home_headers \in HomeHeaders
  /\ formula_info = EmptyMap
  /\ formula_pattern = <<>>
  /\ GraphIdle /\ ImpactIdle /\ DiscoverIdle /\ TranslateIdle /\ ResultsIdle
  /\ SeverityIdle /\ RefsIdle /\ ReadIdle /\ ColumnsIdle

SpecAnalyzeCalls == AnalyzeCallInit /\ [][AnalyzeNext]_vars

\* The name of a function in a formula text: letters, then digits if any,
\* not after a word character and directly before '('.
FunctionName == <<NotBehind(WordChars), OneOrMore(Upper), ZeroOrMore(Digits),
                  Lit("(")>>

\* the names of the functions the text calls, each with its letters
CalledFunctions(s) ==
  LET matches == FindIter(FunctionName, s)
  IN {[letters |-> Group(s, matches[k], 2),
       name |-> SubSeq(s, matches[k][2], matches[k][4] - 1)] :
        k \in 1..Len(matches)}

\* C22: the name of a function the formula calls, and the letters of a name
\* that ends in digits, are in neither the dependencies nor the translation
\* map of the formula.
C22_FunctionNameNotAReference ==
  apc # "cell" =>
    \A fn \in CalledFunctions(formula_text) :
      /\ fn.letters \notin formula_info.dependencies
      /\ fn.name \notin formula_info.dependencies
      /\ fn.letters \notin DOMAIN formula_info.header_traducao
      /\ fn.name \notin DOMAIN formula_info.header_traducao

\* ========================================================== SpecResults
\* Here a text is the sequence of its tokens, "." and "_" being tokens of
\* their own: "P.F1" is <<"P", ".", "F1">>.
\* The keys of the formulas dict, in the order of the dict.
TrackedKeyOrder == << <<"P", ".", "F1">>, <<"F3">> >>

\* The names a translation map maps to (also the columns that are validated).
CauseNames == {<<"H">>, <<"F3">>}

\* list without repetition
IsDistinct(q) == \A i, j \in DOMAIN q : q[i] = q[j] => i = j

\* One entry of the formulas dict: the values of 'mapeamento' in the order
\* of the dict (several keys may map to one name), and 'depends_on', the
\* other keys FormulaExtractor._analyze_formula_dependencies listed.
TrackedInfos(key) ==
  [mapeamento : SeqsUpTo(CauseNames, MaxCauses),
   depends_on : {q \in SeqsUpTo(Range(TrackedKeyOrder) \ {key}, 1) : IsDistinct(q)}]

TrackedDicts ==
  UNION {{d \in [K -> UNION {TrackedInfos(key) : key \in K}] :
            \A key \in K : d[key] \in TrackedInfos(key)} :
         K \in SUBSET Range(TrackedKeyOrder)}

\* formulas.items(): the keys present, in dict order
RECURSIVE TrackedItemsFrom(_, _)
TrackedItemsFrom(d, i) ==
  IF i > Len(TrackedKeyOrder) THEN <<>>
  ELSE (IF TrackedKeyOrder[i] \in DOMAIN d THEN <<TrackedKeyOrder[i]>> ELSE <<>>)
         \o TrackedItemsFrom(d, i + 1)

TrackedItems(d) == TrackedItemsFrom(d, 1)

\* The columns that are validated, and the key of each row when the
\* validator has a key column (NoChave without one).
ValidatedColumns == {<<"F1">>, <<"H">>}
NoChave == <<>>
RowKeys == {[i \in 0..(NumRows - 1) |-> NoChave],
            [i \in 0..(NumRows - 1) |-> <<"K", "_", ToString(i)>>]}

\* DataValidator.validate, lines 39-76: one result per validated column and
\* row, column by column, 'resultado' whatever the comparison gave
RECURSIVE ResultsOf(_, _, _)
ResultsOf(columns, chaves, outcome) ==
  IF columns = <<>> THEN <<>>
  ELSE [i \in 1..NumRows |->
          [linha_idx |-> i - 1, coluna |-> Head(columns),
           chave |-> chaves[i - 1], resultado |-> outcome[Head(columns)][i - 1]]]
         \o ResultsOf(Tail(columns), chaves, outcome)

ValidationResults ==
  {ResultsOf(columns, chaves, outcome) :
     columns \in {q \in SeqsUpTo(ValidatedColumns, 2) : IsDistinct(q)},
     chaves \in RowKeys,
     outcome \in [ValidatedColumns -> [0..(NumRows - 1) -> BOOLEAN]]}

\* col_formula.split('.')[-1] if '.' in col_formula else col_formula
RECURSIVE AfterLastDot(_)
AfterLastDot(name) ==
  IF "." \notin Range(name) THEN name ELSE AfterLastDot(Tail(name))

\* sep.join(names)
RECURSIVE Join(_, _)
Join(names, sep) ==
  IF names = <<>> THEN <<>>
  ELSE IF Len(names) = 1 THEN Head(names)
  ELSE Head(names) \o sep \o Join(Tail(names), sep)

\* deps[:3]
FirstThree(deps) == SubSeq(deps, 1, Min2(3, Len(deps)))

\* lines 70-75: the message for the dependencies of a divergent formula
CausesMessage(deps) ==
  IF deps = <<>> THEN <<>>
  ELSE <<"Possíveis causas: divergências em ">> \o Join(FirstThree(deps), <<", ">>)
         \o (IF Len(deps) > 3
               THEN <<" e outras ", ToString(Len(deps) - 3), " colunas">>
               ELSE <<>>)

\* resultado.get('chave', f'Linha_{linha_idx}')
Chave(resultado) ==
  IF resultado.chave = NoChave
    THEN <<"Linha", "_", ToString(resultado.linha_idx)>>
    ELSE resultado.chave

\* f"{chave}_{coluna}_{linha_idx}"
ResultadoKey(resultado) ==
  Chave(resultado) \o <<"_">> \o resultado.coluna
    \o <<"_", ToString(resultado.linha_idx)>>

\* lines 28-34: the loops over formulas.items() and mapeamento.values()
RECURSIVE InverseLoop(_, _, _, _, _)
InverseLoop(inv, d, items, k, j) ==
  IF k > Len(items) THEN inv
  ELSE IF j > Len(d[items[k]].mapeamento) THEN InverseLoop(inv, d, items, k + 1, 1)
  ELSE LET col_referenciada == d[items[k]].mapeamento[j]
       IN InverseLoop(Put(inv, col_referenciada,
                          Append(Get(inv, col_referenciada, <<>>), items[k])),
                      d, items, k, j + 1)

\* lines 40-48: formula_dependencies[col_name] = deps
RECURSIVE TrackLoop(_, _, _, _)
TrackLoop(deps_by_col, d, items, k) ==
  IF k > Len(items) THEN deps_by_col
  ELSE TrackLoop(Put(deps_by_col, AfterLastDot(items[k]), d[items[k]].mapeamento),
                 d, items, k + 1)

\* the message of a tracked column whatever the outcome
ResultMessageAnyOutcome(deps_by_col, resultado) ==
  IF resultado.coluna \in DOMAIN deps_by_col
    THEN CausesMessage(deps_by_col[resultado.coluna])
    ELSE <<>>

\* lines 54-85: the message stored for one validation result
ResultMessage(deps_by_col, resultado) ==
  IF resultado.coluna \in DOMAIN deps_by_col /\ ~resultado.resultado
    THEN CausesMessage(deps_by_col[resultado.coluna])
    ELSE <<>>

\* lines 53-85: the loop over validation_results
RECURSIVE ResultsLoop(_, _, _, _)
ResultsLoop(impacto, deps_by_col, results, k) ==
  IF k > Len(results) THEN impacto
  ELSE ResultsLoop(Put(impacto, ResultadoKey(results[k]),
                       ResultMessage(deps_by_col, results[k])),
                   deps_by_col, results, k + 1)

\* main, lines 157-161: the loops over formulas.items() and depends_on
RECURSIVE ReverseLoop(_, _, _, _, _)
ReverseLoop(rev, d, items, k, j) ==
  IF k > Len(items) THEN rev
  ELSE IF j > Len(d[items[k]].depends_on) THEN ReverseLoop(rev, d, items, k + 1, 1)
  ELSE LET dep == d[items[k]].depends_on[j]
       IN ReverseLoop(Put(rev, dep, Append(Get(rev, dep, <<>>), items[k])),
                      d, items, k, j + 1)

ResultsInit ==
  /\ rpc = "inverse"
  /\ tracked_formulas \in TrackedDicts
  /\ validation_results \in ValidationResults
  /\ dependencias_inversas = EmptyMap
  /\ formula_dependencies = EmptyMap
  /\ impacto_por_resultado = EmptyMap
  /\ reverse_dependencies = EmptyMap
  /\ GraphIdle /\ ImpactIdle /\ DiscoverIdle /\ TranslateIdle /\ AnalyzeIdle
  /\ SeverityIdle /\ RefsIdle /\ ReadIdle /\ ColumnsIdle

\* analyze_formula_dependencies, lines 24-36
BuildInverse ==
  /\ rpc = "inverse"
  /\ UNCHANGED notResults
  /\ dependencias_inversas' =
       InverseLoop(EmptyMap, tracked_formulas, TrackedItems(tracked_formulas), 1, 1)
  /\ rpc' = "track"
  /\ UNCHANGED <<tracked_formulas, validation_results, formula_dependencies,
                 impacto_por_resultado, reverse_dependencies>>

\* analyze_formula_dependencies, lines 38-49
TrackDependencies ==
  /\ rpc = "track"
  /\ UNCHANGED notResults
  /\ formula_dependencies' =
       TrackLoop(EmptyMap, tracked_formulas, TrackedItems(tracked_formulas), 1)
  /\ rpc' = "results"
  /\ UNCHANGED <<tracked_formulas, validation_results, dependencias_inversas,
                 impacto_por_resultado, reverse_dependencies>>

\* analyze_formula_dependencies, lines 51-87
AnalyzeResults ==
  /\ rpc = "results"
  /\ UNCHANGED notResults
  /\ impacto_por_resultado' =
       ResultsLoop(EmptyMap, formula_dependencies, validation_results, 1)
  /\ rpc' = "reverse"
  /\ UNCHANGED <<tracked_formulas, validation_results, dependencias_inversas,
                 formula_dependencies, reverse_dependencies>>

\* main, lines 156-161
BuildReverse ==
  /\ rpc = "reverse"
  /\ UNCHANGED notResults
  /\ reverse_dependencies' =
       ReverseLoop(EmptyMap, tracked_formulas, TrackedItems(tracked_formulas), 1, 1)
  /\ rpc' = "done"
  /\ UNCHANGED <<tracked_formulas, validation_results, dependencias_inversas,
                 formula_dependencies, impacto_por_resultado>>

ResultsNext ==
  \/ BuildInverse
  \/ TrackDependencies
  \/ AnalyzeResults
  \/ BuildReverse

SpecResults == ResultsInit /\ [][ResultsNext]_vars

\* ---------------------------------------------- properties of SpecResults
\* C14: each reverse index lists formula F under name C exactly once when C
\* is among the dependencies of F, and not at all otherwise: the inverse map
\* of analyze_formula_dependencies, reverse_dependencies of main, and
\* cadeia_impacto of analisar_cadeia_impacto.
C14_ReverseIndexIsInverse ==
  /\ rpc \in {"track", "results", "reverse", "done"} =>
       \A f \in DOMAIN tracked_formulas : \A c \in CauseNames :
         Occurrences(Get(dependencias_inversas, c, <<>>), f) =
           (IF c \in Range(tracked_formulas[f].mapeamento) THEN 1 ELSE 0)
  /\ rpc = "done" =>
       \A f \in DOMAIN tracked_formulas : \A c \in Range(TrackedKeyOrder) :
         Occurrences(Get(reverse_dependencies, c, <<>>), f) =
           (IF c \in Range(tracked_formulas[f].depends_on) THEN 1 ELSE 0)
  /\ ipc \in {"cascata", "done"} =>
       \A f \in DOMAIN formulas : \A c \in ColumnNames :
         f \in Get(cadeia_impacto, c, {}) <=> c \in DepsOf(f)

\* the names of q, each once, in the order they first appear
RECURSIVE DistinctNames(_)
DistinctNames(q) ==
  IF q = <<>> THEN <<>>
  ELSE LET front == DistinctNames(SubSeq(q, 1, Len(q) - 1))
       IN IF q[Len(q)] \in Range(front) THEN front ELSE Append(front, q[Len(q)])

\* the tracked formula whose result column is coluna
FormulaOfColumn(coluna) ==
  CHOOSE f \in DOMAIN tracked_formulas : AfterLastDot(f) = coluna

\* C15: the message of a divergent cell of a tracked formula column names
\* the first three dependency names of the formula, in the order of its
\* translation map, and then the number of its dependency names beyond
\* these three, if any.
C15_CausesListedWithOverflow ==
  rpc \in {"reverse", "done"} =>
    \A i \in DOMAIN validation_results :
      LET resultado == validation_results[i]
          names == DistinctNames(tracked_formulas[FormulaOfColumn(resultado.coluna)].mapeamento)
      IN (~resultado.resultado
            /\ \E f \in DOMAIN tracked_formulas : AfterLastDot(f) = resultado.coluna
            /\ names # <<>>) =>
           impacto_por_resultado[ResultadoKey(resultado)] =
             <<"Possíveis causas: divergências em ">>
               \o Join(FirstThree(names), <<", ">>)
               \o (IF Len(names) > 3
                     THEN <<" e outras ", ToString(Len(names) - 3), " colunas">>
                     ELSE <<>>)

\* the result columns of the tracked formulas
TrackedColumns == {AfterLastDot(f) : f \in DOMAIN tracked_formulas}

\* C16: every validation result has an entry; the entry of a result that
\* passed, or whose column is no tracked formula's result column, is the
\* empty message.
C16_MessageOnlyForFailedFormula ==
  rpc \in {"reverse", "done"} =>
    \A i \in DOMAIN validation_results :
      LET resultado == validation_results[i]
      IN /\ ResultadoKey(resultado) \in DOMAIN impacto_por_resultado
         /\ impacto_por_resultado[ResultadoKey(resultado)] # <<>> =>
              (~resultado.resultado /\ resultado.coluna \in TrackedColumns)

C16_Witness ==
  /\ rpc = "done"
  /\ \E i, j \in DOMAIN validation_results :
       /\ ~validation_results[i].resultado
       /\ validation_results[i].coluna = <<"F1">>
       /\ impacto_por_resultado[ResultadoKey(validation_results[i])] # <<>>
       /\ validation_results[j].coluna = <<"H">>
       /\ ~validation_results[j].resultado
       /\ impacto_por_resultado[ResultadoKey(validation_results[j])] = <<>>

\* ========================================================= SpecSeverity
\* The origin columns of cascade_data, in the order of the dict.
OriginOrder == <<"X", "Y">>

\* a list of k names
NameList(kind, k) == [i \in 1..k |-> <<kind, i>>]

\* impacto_cascata[col_origem]['affected'] as main builds it (validate.py,
\* lines 228-247): the affected names, at least one, split in two lists
AffectedRecords ==
  {[columns |-> NameList("column", c), formulas |-> NameList("formula", f)] :
     c \in 0..MaxAffected, f \in 0..MaxAffected} \
  {[columns |-> <<>>, formulas |-> <<>>]}

CascadeDicts == UNION {[K -> AffectedRecords] : K \in SUBSET Range(OriginOrder)}

\* cascade_data.items()
CascadeItems(d) == SelectSeq(OriginOrder, LAMBDA o : o \in DOMAIN d)

\* lines 545-560 with the thresholds 5 and 2 taken as inclusive
NivelInclusive(impact_level) ==
  IF impact_level >= 5 THEN "CRÍTICO"
  ELSE IF impact_level >= 2 THEN "ALTO"
  ELSE "MODERADO"

\* lines 545-560: nivel
Nivel(impact_level) ==
  IF impact_level > 5 THEN "CRÍTICO"
  ELSE IF impact_level > 2 THEN "ALTO"
  ELSE "MODERADO"

\* line 545
ImpactLevel(affected) == Len(affected.columns) + Len(affected.formulas)

SeverityInit ==
  /\ spc = "rows"
  /\ cascade_data \in CascadeDicts
  /\ cascade_idx = 1
  /\ cascade_rows = <<>>
  /\ GraphIdle /\ ImpactIdle /\ DiscoverIdle /\ TranslateIdle /\ AnalyzeIdle
  /\ ResultsIdle /\ RefsIdle /\ ReadIdle /\ ColumnsIdle

\* _create_cascade_impact_sheet, lines 529-574: the row of one origin
WriteCascadeRow ==
  /\ spc = "rows"
  /\ UNCHANGED notSeverity
  /\ cascade_idx <= Len(CascadeItems(cascade_data))
  /\ LET origem == CascadeItems(cascade_data)[cascade_idx]
         impactos == cascade_data[origem]
     IN cascade_rows' = Append(cascade_rows,
          [origem |-> origem,
           columns |-> impactos.columns,
           formulas |-> impactos.formulas,
           nivel |-> Nivel(ImpactLevel(impactos))])
  /\ cascade_idx' = cascade_idx + 1
  /\ UNCHANGED <<spc, cascade_data>>

\* _create_cascade_impact_sheet, line 576: the loop is over
CascadeRowsDone ==
  /\ spc = "rows"
  /\ UNCHANGED notSeverity
  /\ cascade_idx > Len(CascadeItems(cascade_data))
  /\ spc' = "done"
  /\ UNCHANGED <<cascade_data, cascade_idx, cascade_rows>>

SeverityNext ==
  \/ WriteCascadeRow
  \/ CascadeRowsDone

SpecSeverity == SeverityInit /\ [][SeverityNext]_vars

\* --------------------------------------------- properties of SpecSeverity
\* C17: the level written for an origin follows n = number of affected
\* columns + number of affected formulas: MODERADO for n <= 2, ALTO for
\* 3 <= n <= 5, CRÍTICO for n > 5.
C17_SeverityThresholds ==
  \A i \in DOMAIN cascade_rows :
    LET n == Len(cascade_data[cascade_rows[i].origem].columns)
               + Len(cascade_data[cascade_rows[i].origem].formulas)
    IN /\ n <= 2 => cascade_rows[i].nivel = "MODERADO"
       /\ (3 <= n /\ n <= 5) => cascade_rows[i].nivel = "ALTO"
       /\ n > 5 => cascade_rows[i].nivel = "CRÍTICO"

C17_Witness ==
  /\ spc = "done"
  /\ \E i, j \in DOMAIN cascade_rows :
       /\ cascade_rows[i].nivel = "CRÍTICO"
       /\ Len(cascade_rows[i].columns) + Len(cascade_rows[i].formulas) = 6
       /\ cascade_rows[j].nivel = "ALTO"
       /\ Len(cascade_rows[j].columns) + Len(cascade_rows[j].formulas) = 5

\* ============================================================= SpecRefs
\* The characters of the formulas whose references are extracted.
RefChars == {"A", "B", "1", "!", ":", "+", "'", "(", ",", "V", "L", "O", "K",
             "U", "P"}

\* [A-Za-z_] and [\w\s] (of the white space, the formulas here have none)
NameStart == Upper \cup Lower \cup {"_"}
NameRest == WordChars \cup {" "}

\* self.patterns, lines 23-34: the items of each pattern, and the items
\* that make up its first group, the sheet name.  The sheet name is a lazy
\* repetition followed by '!', which is not in its class: it ends where the
\* greedy one ends.
CrossPatterns ==
  << [type |-> "sheet_cell", first |-> 1, last |-> 2,
      items |-> <<Rep(NameStart, 1, 1), ZeroOrMore(NameRest), Lit("!"),
                  OneOrMore(Upper), OneOrMore(Digits)>>],
     [type |-> "sheet_range", first |-> 1, last |-> 2,
      items |-> <<Rep(NameStart, 1, 1), ZeroOrMore(NameRest), Lit("!"),
                  OneOrMore(Upper), OneOrMore(Digits), Lit(":"),
                  OneOrMore(Upper), OneOrMore(Digits)>>],
     [type |-> "sheet_column", first |-> 1, last |-> 2,
      items |-> <<Rep(NameStart, 1, 1), ZeroOrMore(NameRest), Lit("!"),
                  OneOrMore(Upper), Lit(":"), OneOrMore(Upper)>>],
     [type |-> "quoted_sheet", first |-> 2, last |-> 2,
      items |-> <<Lit("'"), OneOrMore(RefChars \ {"'"}), Lit("'"), Lit("!"),
                  OneOrMore(Upper), OneOrMore(Digits)>>],
     [type |-> "vlookup_cross", first |-> 13, last |-> 14,
      items |-> <<Lit("V"), Lit("L"), Lit("O"), Lit("O"), Lit("K"), Lit("U"),
                  Lit("P"), ZeroOrMore({" "}), Lit("("),
                  OneOrMore(RefChars \ {","}), Lit(","), ZeroOrMore({" "}),
                  Rep(NameStart, 1, 1), ZeroOrMore(NameRest), Lit("!"),
                  OneOrMore(RefChars \ {",", ")"})>>] >>

\* lines 149-169: the records of the matches k.. of one pattern
RECURSIVE MatchRecords(_, _, _, _, _)
MatchRecords(pt, s, matches, k, current_sheet) ==
  IF k > Len(matches) THEN <<>>
  ELSE LET target_sheet == SubSeq(s, matches[k][pt.first], matches[k][pt.last + 1] - 1)
       IN (IF target_sheet # current_sheet
             THEN <<[type |-> pt.type, source_sheet |-> current_sheet,
                     target_sheet |-> target_sheet]>>
             ELSE <<>>)
            \o MatchRecords(pt, s, matches, k + 1, current_sheet)

\* _extract_cross_references of a formula text: pattern after pattern,
\* each with its findall matches
RECURSIVE CrossReferencesFrom(_, _, _)
CrossReferencesFrom(s, current_sheet, p) ==
  IF p > Len(CrossPatterns) THEN <<>>
  ELSE MatchRecords(CrossPatterns[p], s, FindIter(CrossPatterns[p].items, s), 1,
                    current_sheet)
         \o CrossReferencesFrom(s, current_sheet, p + 1)

CrossReferencesOfText(s, current_sheet) == CrossReferencesFrom(s, current_sheet, 1)

\* the sheet whose formulas are analysed
SourceSheet == <<"A">>

\* The pieces its formulas are written with.
RefPieces == {<<"B", "!">>, <<"A", "!">>, <<"'", "B", "'", "!">>, <<"A", "1">>,
              <<"A">>, <<":">>, <<"+">>,
              <<"V", "L", "O", "O", "K", "U", "P", "(", "A", "1", ",">>}

\* (a cell with an empty f element has no formula, line 123)
RefFormulas == {Concat(q) : q \in SeqsUpTo(RefPieces, MaxRefPieces)} \ {<<>>}

\* sheet_data['formulas'].values(): one formula, or that formula and a cell
\* holding B!A1 (the text of the f element has no leading '=')
SourceFormulas ==
  {<<f>> : f \in RefFormulas} \cup {<<f, <<"B", "!", "A", "1">> >> : f \in RefFormulas}

RefsInit ==
  /\ xpc = "extract"
  /\ source_formulas \in SourceFormulas
  /\ formula_idx = 1
  /\ found_refs = <<>>
  /\ sheet_edges = {}
  /\ GraphIdle /\ ImpactIdle /\ DiscoverIdle /\ TranslateIdle /\ AnalyzeIdle
  /\ ResultsIdle /\ SeverityIdle /\ ReadIdle /\ ColumnsIdle

\* analyze_workbook_native, lines 62-65: the references of one formula
ExtractRefs ==
  /\ xpc = "extract"
  /\ UNCHANGED notRefs
  /\ formula_idx <= Len(source_formulas)
  /\ found_refs' = found_refs
       \o CrossReferencesOfText(source_formulas[formula_idx], SourceSheet)
  /\ formula_idx' = formula_idx + 1
  /\ UNCHANGED <<xpc, source_formulas, sheet_edges>>

\* generate_dependency_graph, lines 204-215; cross_references has the key
\* of the sheet only if a reference was found (line 64)
BuildEdges ==
  /\ xpc = "extract"
  /\ UNCHANGED notRefs
  /\ formula_idx > Len(source_formulas)
  /\ sheet_edges' = GraphEdges(IF found_refs = <<>> THEN EmptyMap
                               ELSE (SourceSheet :> found_refs))
  /\ xpc' = "done"
  /\ UNCHANGED <<source_formulas, formula_idx, found_refs>>

RefsNext ==
  \/ ExtractRefs
  \/ BuildEdges

SpecRefs == RefsInit /\ [][RefsNext]_vars

\* The references a formula text holds to a sheet: every place where a sheet
\* name, plain or quoted, and '!' are followed by a cell (alone or as the
\* start of a range) or by a full-column span.
ReferenceForms == {"sheet_cell", "sheet_column", "quoted_sheet"}

TextualReferences(s, target) ==
  {<<p, k>> \in (1..Len(CrossPatterns)) \X (1..Len(s)) :
     /\ CrossPatterns[p].type \in ReferenceForms
     /\ LET matches == FindIter(CrossPatterns[p].items, s)
        IN /\ k <= Len(matches)
           /\ SubSeq(s, matches[k][CrossPatterns[p].first],
                     matches[k][CrossPatterns[p].last + 1] - 1) = target}

RECURSIVE ReferenceCount(_, _, _)
ReferenceCount(texts, target, k) ==
  IF k > Len(texts) THEN 0
  ELSE Cardinality(TextualReferences(texts[k], target))
         + ReferenceCount(texts, target, k + 1)

ReferencedSheets == {<<"B">>}

\* C19: the graph of the sheets has at most one edge from the sheet to
\* each sheet its formulas refer to, and the count of the edge is the number
\* of the references to that sheet in the formulas, each reference of the
\* text counted once.
C19_EdgeCountsTextualReferences ==
  xpc = "done" =>
    /\ \A e1, e2 \in sheet_edges :
         (e1.source = e2.source /\ e1.target = e2.target) => e1 = e2
    /\ \A e \in sheet_edges :
         /\ e.source = SourceSheet
         /\ e.count = ReferenceCount(source_formulas, e.target, 1)
    /\ \A t \in ReferencedSheets :
         ReferenceCount(source_formulas, t, 1) > 0
           => \E e \in sheet_edges : e.target = t

\* the records and the edges found in the formula texts of the sheet never
\* have the sheet itself as target
RefsNoSelfReference ==
  /\ \A i \in DOMAIN found_refs :
       /\ found_refs[i].source_sheet = SourceSheet
       /\ found_refs[i].target_sheet # SourceSheet
  /\ \A e \in sheet_edges : e.source # e.target

\* ============================================================= SpecRead
\* The file analyze_workbook_native is given.  zip: zipfile.ZipFile opens
\* it.  workbook: the state of the part xl/workbook.xml.  sheets: the sheet
\* elements of that part in document order, each with its name, whether it
\* carries the r:id attribute, and the state of the part the r:id leads to.
PartStates == {"ok", "missing", "malformed"}

DeclaredNames == {"A", "B", "C"}

DeclaredSheets ==
  {q \in SeqsUpTo([name : DeclaredNames, has_id : BOOLEAN, part : PartStates],
                  MaxDeclared) :
     \A i, j \in 1..Len(q) : q[i].name = q[j].name => i = j}

\* (a workbook part that is missing or not well-formed declares nothing)
Packages ==
  {pkg \in [zip : BOOLEAN, workbook : PartStates, sheets : DeclaredSheets] :
     pkg.workbook # "ok" => pkg.sheets = <<>>}

\* line 104-109: the sheet_data _extract_sheet_data starts from
EmptySheetData == [cells |-> {}, formulas |-> {}, max_row |-> 0, max_col |-> 0]

\* a readable sheet part holds one cell, A1, with a value
ReadSheetData == [cells |-> {"A1"}, formulas |-> {}, max_row |-> 1, max_col |-> 1]

\* lines 90-96: the names entered in sheet_info before the first sheet
\* element without r:id, whose sheet_id[3:] raises
RECURSIVE InfoNames(_, _)
InfoNames(q, k) ==
  IF k > Len(q) \/ ~q[k].has_id THEN <<>>
  ELSE <<q[k].name>> \o InfoNames(q, k + 1)

\* the declared sheet of a name
DeclaredAs(pkg, n) ==
  CHOOSE d \in {pkg.sheets[k] : k \in 1..Len(pkg.sheets)} : d.name = n

ReadInit ==
  /\ wpc = "start"
  /\ package \in Packages
  /\ sheet_info = <<>>
  /\ sheet_pos = 1
  /\ sheets_data = EmptyMap
  /\ errors_logged = 0
  /\ GraphIdle /\ ImpactIdle /\ DiscoverIdle /\ TranslateIdle /\ AnalyzeIdle
  /\ ResultsIdle /\ SeverityIdle /\ RefsIdle /\ ColumnsIdle

\* line 49: zipfile.ZipFile(file_path); its exception is logged and raised
\* again (lines 70-72)
OpenPackage ==
  /\ wpc = "start"
  /\ UNCHANGED notRead
  /\ IF package.zip
       THEN wpc' = "info" /\ UNCHANGED errors_logged
       ELSE wpc' = "raised" /\ errors_logged' = errors_logged + 1
  /\ UNCHANGED <<package, sheet_info, sheet_pos, sheets_data>>

\* _extract_sheet_info, lines 76-101: every exception is logged and the
\* sheet_info built so far is returned
ExtractSheetInfo ==
  /\ wpc = "info"
  /\ UNCHANGED notRead
  /\ IF package.workbook # "ok"
       THEN sheet_info' = <<>> /\ errors_logged' = errors_logged + 1
       ELSE /\ sheet_info' = InfoNames(package.sheets, 1)
            /\ errors_logged' =
                 IF \E k \in 1..Len(package.sheets) : ~package.sheets[k].has_id
                   THEN errors_logged + 1 ELSE errors_logged
  /\ sheet_pos' = 1
  /\ wpc' = "sheets"
  /\ UNCHANGED <<package, sheets_data>>

\* lines 54-59 with _extract_sheet_data, lines 103-141: every exception is
\* logged and the sheet_data built so far is returned
ExtractSheetData ==
  /\ wpc = "sheets"
  /\ UNCHANGED notRead
  /\ sheet_pos <= Len(sheet_info)
  /\ LET sheet_name == sheet_info[sheet_pos]
         part == DeclaredAs(package, sheet_name).part
     IN IF part = "ok"
          THEN /\ sheets_data' = Put(sheets_data, sheet_name, ReadSheetData)
               /\ UNCHANGED errors_logged
          ELSE /\ sheets_data' = Put(sheets_data, sheet_name, EmptySheetData)
               /\ errors_logged' = errors_logged + 1
  /\ sheet_pos' = sheet_pos + 1
  /\ UNCHANGED <<wpc, package, sheet_info>>

\* line 74
ReturnWorkbookData ==
  /\ wpc = "sheets"
  /\ UNCHANGED notRead
  /\ sheet_pos > Len(sheet_info)
  /\ wpc' = "returned"
  /\ UNCHANGED <<package, sheet_info, sheet_pos, sheets_data, errors_logged>>

ReadNext ==
  \/ OpenPackage
  \/ ExtractSheetInfo
  \/ ExtractSheetData
  \/ ReturnWorkbookData

SpecRead == ReadInit /\ [][ReadNext]_vars

\* the declared sheet list cannot be read at all: the file is not a
\* package, or its workbook part is missing or is not well-formed
SheetListUnreadable == ~package.zip \/ package.workbook # "ok"

\* the sheet list is read in full
SheetListRead ==
  /\ package.zip
  /\ package.workbook = "ok"
  /\ \A k \in 1..Len(package.sheets) : package.sheets[k].has_id

\* C20: when the declared sheet list cannot be read at all, the analysis
\* ends with an error and not with a normal result; when the list is read,
\* the analysis returns with an entry for every declared sheet, whatever the
\* state of the parts of the sheets.
C20_UnreadableSheetListAborts ==
  wpc \in {"returned", "raised"} =>
    /\ SheetListUnreadable => wpc = "raised"
    /\ SheetListRead =>
         /\ wpc = "returned"
         /\ DOMAIN sheets_data = {package.sheets[k].name : k \in 1..Len(package.sheets)}

\* ========================================================== SpecColumns
\* ord(char) - ord('A') + 1
Alphabet == <<"A", "B", "C", "D", "E", "F", "G", "H", "I", "J", "K", "L", "M",
              "N", "O", "P", "Q", "R", "S", "T", "U", "V", "W", "X", "Y", "Z">>

LetterValue(char) == CHOOSE n \in 1..Len(Alphabet) : Alphabet[n] = char

\* the loop with a value of 0 for 'A': col * 26 + (ord(char) - ord('A'))
RECURSIVE ColumnOfLettersFromZero(_, _)
ColumnOfLettersFromZero(letters, acc) ==
  IF letters = <<>> THEN acc
  ELSE ColumnOfLettersFromZero(Tail(letters),
                               acc * 26 + (LetterValue(Head(letters)) - 1))

\* the loop of lines 181-184 of cross_sheet_analyzer.py and of lines
\* 142-145 of data_loader.py: col = col * 26 + (ord(char) - ord('A') + 1)
RECURSIVE ColumnOfLetters(_, _)
ColumnOfLetters(letters, acc) ==
  IF letters = <<>> THEN acc
  ELSE ColumnOfLetters(Tail(letters), acc * 26 + LetterValue(Head(letters)))

\* _parse_cell_ref(cell_ref): the column of (col, row); 0 of (0, 0) when
\* re.match finds no letters followed by digits at the start
ParseCellRefColumn(cell_ref) ==
  LET mt == MatchFrom(pattern_row_ref, 1, cell_ref, 1)
  IN IF mt = <<>> THEN 0 ELSE ColumnOfLetters(Group(cell_ref, mt, 1), 0)

\* _convert_column_letters_to_indices([col])[0] for a col of upper-case
\* letters (col.isalpha() and col.isupper())
ConvertColumnLetters(letters) == ColumnOfLetters(letters, 0) - 1

\* openpyxl.utils.get_column_letter(col_idx), 1 <= col_idx <= 18278: divmod
\* by 26 with a remainder of 0 taken as 26 and one less carried, the letters
\* in reverse order
RECURSIVE GetColumnLetter(_)
GetColumnLetter(n) ==
  IF n <= 0 THEN <<>>
  ELSE LET remainder == IF n % 26 = 0 THEN 26 ELSE n % 26
           quotient == IF n % 26 = 0 THEN (n \div 26) - 1 ELSE n \div 26
       IN GetColumnLetter(quotient) \o <<Alphabet[remainder]>>

\* The letters the column strings are written with, and the strings.
ColumnLetters == {"A", "B", "Y", "Z"}

ColumnStrings == SeqsUpTo(ColumnLetters, MaxLetters) \ {<<>>}

\* the row of the cell reference given to _parse_cell_ref
RowDigits == <<"7">>

ColumnsInit ==
  /\ cpc = "start"
  /\ col_str \in ColumnStrings
  /\ cell_col = 0
  /\ zero_index = 0
  /\ col_letter = <<>>
  /\ GraphIdle /\ ImpactIdle /\ DiscoverIdle /\ TranslateIdle /\ AnalyzeIdle
  /\ ResultsIdle /\ SeverityIdle /\ RefsIdle /\ ReadIdle

\* cross_sheet_analyzer.py line 134: col, row = self._parse_cell_ref(cell_ref)
ParseCellRef ==
  /\ cpc = "start"
  /\ UNCHANGED notColumns
  /\ cell_col' = ParseCellRefColumn(col_str \o RowDigits)
  /\ cpc' = "parsed"
  /\ UNCHANGED <<col_str, zero_index, col_letter>>

\* data_loader.py: _convert_column_letters_to_indices of the same letters
ConvertColumn ==
  /\ cpc = "parsed"
  /\ UNCHANGED notColumns
  /\ zero_index' = ConvertColumnLetters(col_str)
  /\ cpc' = "converted"
  /\ UNCHANGED <<col_str, cell_col, col_letter>>

\* formula_auto_discovery.py line 68: the letters of the decoded column
EncodeColumn ==
  /\ cpc = "converted"
  /\ UNCHANGED notColumns
  /\ col_letter' = GetColumnLetter(cell_col)
  /\ cpc' = "encoded"
  /\ UNCHANGED <<col_str, cell_col, zero_index>>

ColumnsNext ==
  \/ ParseCellRef
  \/ ConvertColumn
  \/ EncodeColumn

SpecColumns == ColumnsInit /\ [][ColumnsNext]_vars

\* the strings the round trip is stated for
SampleColumns == {<<"A">>, <<"B">>, <<"Z">>, <<"A", "A">>, <<"A", "B">>,
                  <<"Z", "Z">>, <<"A", "A", "A">>}

\* C23: the letters of a column, decoded and encoded again, come back
\* unchanged; A is 1, Z is 26 and AA is 27; and the decoder that counts from
\* 0 gives one less than the decoder that counts from 1.
C23_ColumnLettersRoundTrip ==
  /\ cpc \in {"converted", "encoded"} => zero_index = cell_col - 1
  /\ cpc # "start" =>
       /\ col_str = <<"A">> => cell_col = 1
       /\ col_str = <<"Z">> => cell_col = 26
       /\ col_str = <<"A", "A">> => cell_col = 27
  /\ cpc = "encoded" => col_letter = col_str

C23_Witness ==
  /\ cpc = "encoded"
  /\ col_str = <<"A", "A", "A">>
  /\ cell_col = 703
  /\ zero_index = 702
  /\ col_letter = col_str

====
